---- MODULE Spec2Model ----
(***************************************************************************)
(* OpenLKAS: the lane-departure alert state machine with its audio sink    *)
(* (audio_alert.py), the lane detector's temporal smoother                 *)
(* (lane_detector.py), the lane-centre estimator and the departure         *)
(* classifier (utils.py), and the frame loop that drives them (main.py).   *)
(*                                                                         *)
(* Time is counted in ticks of half a second: every duration of the alert  *)
(* code (1.0 s, 2.0 s, 5.0 s) is a whole number of ticks.  The 0.3 s a beep *)
(* thread waits is shorter than a tick; a beep thread may end at any time  *)
(* after its start (after its wait, or at once through its except branch). *)
(* Pixel quantities are exact rationals [n, d] in lowest terms.            *)
(***************************************************************************)
EXTENDS Integers, Sequences, FiniteSets, TLC

VARIABLES
    \* ---- AudioAlert (the alert sink) ----
    now,                    \* time.time(), in ticks
    is_initialized,         \* AudioAlert.is_initialized
    last_alert_time,        \* AudioAlert.last_alert_time
    alert_thread,           \* AudioAlert.alert_thread: None or a thread id
    stop_alert,             \* AudioAlert.stop_alert
    threads,                \* the live background threads: id -> record
    \* ---- LaneDepartureAlert ----
    last_departure_state,   \* LaneDepartureAlert.last_departure_state
    departure_start_time,   \* LaneDepartureAlert.departure_start_time
    \* ---- the frame-loop thread inside process_departure ----
    main_pc,                \* "ready", "stop_join", "joining" or "cleanup_join"
    call_arg,               \* is_departing of the call in progress / last call
    join_target,            \* the thread stop_continuous_alert joins
    join_deadline,          \* when that join times out
    \* ---- observation of the commands sent to the sink ----
    issued,                 \* commands issued by the latest process_departure
    frame_bit,              \* flips at every process_departure call
    episode_single,         \* play_beep commands since the departure began
    episode_cont,           \* play_continuous_alert commands since then
    cancelled,              \* the repeat loops that were running at a stop
    \* ---- LaneDetector ----
    last_lane_center,       \* LaneDetector.last_lane_center: None or a rational
    departure_threshold,    \* LaneDetector.departure_threshold
    det_result,             \* the latest result of detect_lanes
    det_input,              \* the frame of the latest detect_lanes call
    det_frames,             \* number of detector operations so far
    seen,                   \* the raw estimates _calculate_drift has computed
    \* ---- calculate_lane_center as a pure function ----
    c_lines,                \* its argument
    c_result,               \* its result
    c_pc,                   \* "call" or "done"
    \* ---- is_lane_departure as a pure function ----
    cls_offset,             \* its offset argument
    cls_threshold,          \* its threshold argument
    cls_result,             \* its result
    cls_pc,                 \* "call" or "done"
    \* ---- OpenLKAS.run (the frame loop) ----
    running,                \* OpenLKAS.running
    frame_count,            \* OpenLKAS.frame_count
    loop_pc,                \* "idle", "poll", "alert", "rest", "cleanup",
                            \* "closing" (inside cleanup), "stopped", or
                            \* "returned" without a loop
    polls,                  \* failures get_frame has reported in a row
    stop_cause,             \* how the loop ended: "none", "quit", "error"
                            \* or "interrupt"
    camera_ok,              \* CameraModule.is_initialized after construction
    camera_released,        \* CameraModule.release has run
    \* ---- calculate_center_offset as a pure function ----
    co_lane_center,         \* its lane_center argument
    co_image_center,        \* its image_center argument
    co_result,              \* its result
    co_pc,                  \* "call" or "done"
    \* ---- the volume of the sink ----
    volume,                 \* AudioAlert.volume
    vol_arg,                \* the volume last asked for
    vol_calls,              \* number of update_volume calls so far
    \* ---- a client of the sink on its own ----
    sink_op,                \* the method of AudioAlert called last
    sink_ret,               \* what it returned
    sink_bit,               \* flips at every call of play_beep or
                            \* play_continuous_alert
    cleanups                \* calls of AudioAlert.cleanup that have returned

alert_vars == <<now, is_initialized, last_alert_time, alert_thread, stop_alert,
                threads, last_departure_state, departure_start_time, main_pc,
                call_arg, join_target, join_deadline, issued, frame_bit,
                episode_single, episode_cont, cancelled>>
cancel_vars == <<cancelled>>
det_vars == <<last_lane_center, departure_threshold, det_result, det_input,
              det_frames, seen>>
center_vars == <<c_lines, c_result, c_pc>>
cls_vars == <<cls_offset, cls_threshold, cls_result, cls_pc>>
loop_vars == <<running, frame_count, loop_pc, polls, stop_cause, camera_ok,
               camera_released>>
offset_vars == <<co_lane_center, co_image_center, co_result, co_pc>>
vol_vars == <<volume, vol_arg, vol_calls>>
sink_vars == <<sink_op, sink_ret, sink_bit, cleanups>>
vars == <<alert_vars, det_vars, center_vars, cls_vars, loop_vars, offset_vars,
          vol_vars, sink_vars>>

\* Python's None and a present value: an optional is a sequence of length <= 1
None == << >>
Some(x) == <<x>>
Val(o) == o[1]

(***************************************************************************)
(* Bounds of the model.                                                    *)
(***************************************************************************)
Horizon == 16        \* ticks the clock may advance
MaxThreads == 2      \* thread ids in use at once
MaxFrames == 3       \* detector operations in a run
MaxCoord == 2        \* endpoint coordinates of the estimator's inputs
MaxLines == 2        \* segments in an input of the estimator
MaxOffset == 3       \* offsets and thresholds of the classifier's inputs
MaxIterations == 2   \* frames the frame loop processes in a run
LoopHorizon == 8     \* ticks the clock may advance while the frame loop runs
CountCap == 2        \* the command counters saturate here
\* volumes are asked for in tenths from -MaxVolume/10 to 1 + MaxVolume/10
MaxVolume == 5
\* update_volume calls of one run
MaxCalls == 5
\* the clock of a sink used on its own stops SinkHorizon ticks after the start
SinkHorizon == 2
\* calls of AudioAlert.cleanup in one run
MaxCleanups == 2

(***************************************************************************)
(* Program constants, in ticks.                                            *)
(***************************************************************************)
alert_cooldown == 2               \* alert_cooldown = 1.0
continuous_alert_threshold == 4   \* continuous_alert_threshold = 2.0
ContinuousDuration == 10          \* play_continuous_alert(duration=5.0)
JoinTimeout == 2                  \* join(timeout=1.0)
BeepTicks == 1                    \* duration = 0.3: a beep thread ends within a tick

\* time.time() is an epoch time: positive, and further than a cooldown from 0
StartTime == alert_cooldown
ThreadIds == 1..MaxThreads

(***************************************************************************)
(* Background threads.  A record per live thread; a thread that has ended  *)
(* is no longer in DOMAIN threads, and a handle to it reports not alive.   *)
(***************************************************************************)
BeepThread == [kind |-> "beep", start_time |-> now, duration |-> 0,
               pc |-> "play", wake |-> 0]
ContThread(d) == [kind |-> "cont", start_time |-> now, duration |-> d,
                  pc |-> "test", wake |-> 0]

\* threading.Thread.is_alive() of the thread a handle h = Some(id) names
IsAlive(thr, h) == Val(h) \in DOMAIN thr

\* A new thread takes the least id that names no running thread and is not
\* the thread being joined.  Every creation of a thread overwrites
\* alert_thread, so the id of an ended thread it still names can be taken.
Referenced(h) == IF h = None THEN {} ELSE {Val(h)}
FreeIds(thr) == ThreadIds \ (DOMAIN thr \cup Referenced(join_target))
FreshId(thr) == CHOOSE i \in FreeIds(thr) : \A j \in FreeIds(thr) : i <= j

Spawn(thr, id, rec) == [i \in DOMAIN thr \cup {id} |-> IF i = id THEN rec ELSE thr[i]]
Exit(thr, id) == [i \in DOMAIN thr \ {id} |-> thr[i]]

\* Python truthiness of an optional number: None and 0 are false
Truthy(o) == o # None /\ Val(o) # 0

(***************************************************************************)
(* AudioAlert.play_beep(force): whether the beep fires, and the sink after *)
(* the call made with thread table thr.                                    *)
(***************************************************************************)
\* mutant: the cooldown also blocks a call made exactly alert_cooldown after
\* the last alert
CooldownBlocks_Inclusive(force) == ~force /\ (now - last_alert_time) <= alert_cooldown

\* line 121
CooldownBlocks(force) == ~force /\ (now - last_alert_time) < alert_cooldown

BeepFires(force) == is_initialized /\ ~CooldownBlocks(force)

\* mutant: play_beep does not test is_initialized
play_beep_Unchecked(force, thr) ==
    IF ~CooldownBlocks(force)
    THEN LET id == FreshId(thr) IN
         [returned |-> TRUE, last_alert_time |-> now, alert_thread |-> Some(id),
          threads |-> Spawn(thr, id, BeepThread)]
    ELSE [returned |-> FALSE, last_alert_time |-> last_alert_time,
          alert_thread |-> alert_thread, threads |-> thr]

\* lines 114-133
play_beep(force, thr) ==
    IF BeepFires(force)
    THEN LET id == FreshId(thr) IN
         [returned |-> TRUE, last_alert_time |-> now, alert_thread |-> Some(id),
          threads |-> Spawn(thr, id, BeepThread)]
    ELSE [returned |-> FALSE, last_alert_time |-> last_alert_time,
          alert_thread |-> alert_thread, threads |-> thr]

(***************************************************************************)
(* AudioAlert.play_continuous_alert(duration): starts the repeat loop.     *)
(***************************************************************************)
\* mutant: play_continuous_alert does not test is_initialized
play_continuous_alert_Unchecked(d) ==
    IF FreeIds(threads) = {}
    THEN [stop_alert |-> FALSE, alert_thread |-> alert_thread,
          threads |-> threads]
    ELSE LET id == FreshId(threads) IN
         [stop_alert |-> FALSE, alert_thread |-> Some(id),
          threads |-> Spawn(threads, id, ContThread(d))]

\* lines 142-157
play_continuous_alert(d) ==
    IF ~is_initialized
    THEN [stop_alert |-> stop_alert, alert_thread |-> alert_thread,
          threads |-> threads]
    ELSE LET id == FreshId(threads) IN
         [stop_alert |-> FALSE, alert_thread |-> Some(id),
          threads |-> Spawn(threads, id, ContThread(d))]

(***************************************************************************)
(* The commands process_departure sends to the sink.                       *)
(***************************************************************************)
CmdBeep(force) == [cmd |-> "play_beep", force |-> force, duration |-> 0]
CmdContinuous(d) == [cmd |-> "play_continuous_alert", force |-> FALSE, duration |-> d]
CmdStop == [cmd |-> "stop_continuous_alert", force |-> FALSE, duration |-> 0]

\* mutant: the escalation test with >= in place of >
EscalationDue_AtThreshold ==
    /\ Truthy(departure_start_time)
    /\ now - Val(departure_start_time) >= continuous_alert_threshold

(***************************************************************************)
(* LaneDepartureAlert.process_departure: its conditions.                   *)
(***************************************************************************)
\* line 288-289: departure_start_time and current_time - departure_start_time > threshold
EscalationDue ==
    /\ Truthy(departure_start_time)
    /\ now - Val(departure_start_time) > continuous_alert_threshold

\* line 291: not alert_thread or not alert_thread.is_alive()
NoAlertActive == alert_thread = None \/ ~IsAlive(threads, alert_thread)

\* a thread will be created by the call: an id must be free for it
HasFreeId == FreeIds(threads) # {}

\* mutant: the first alert of a departure is forced past the cooldown
DepartureBegins_Forced ==
    LET r == play_beep(TRUE, threads) IN
    /\ BeepFires(TRUE) => HasFreeId
    /\ departure_start_time' = Some(now)
    /\ last_alert_time' = r.last_alert_time
    /\ alert_thread' = r.alert_thread
    /\ threads' = r.threads
    /\ issued' = <<CmdBeep(TRUE)>>
    /\ episode_single' = 1
    /\ episode_cont' = 0
    /\ last_departure_state' = TRUE
    /\ UNCHANGED <<stop_alert, main_pc>>

\* Idle -> Alerting (lines 281-285)
DepartureBegins ==
    LET r == play_beep(FALSE, threads) IN
    /\ BeepFires(FALSE) => HasFreeId
    /\ departure_start_time' = Some(now)
    /\ last_alert_time' = r.last_alert_time
    /\ alert_thread' = r.alert_thread
    /\ threads' = r.threads
    /\ issued' = <<CmdBeep(FALSE)>>
    /\ episode_single' = 1
    /\ episode_cont' = 0
    /\ last_departure_state' = TRUE
    /\ UNCHANGED <<stop_alert, main_pc>>

\* mutant: every departing frame asks for a beep again
DepartureContinues_Rebeep ==
    LET r == play_beep(FALSE, threads) IN
    /\ BeepFires(FALSE) => HasFreeId
    /\ last_alert_time' = r.last_alert_time
    /\ alert_thread' = r.alert_thread
    /\ threads' = r.threads
    /\ issued' = <<CmdBeep(FALSE)>>
    /\ episode_single' = IF episode_single < CountCap THEN episode_single + 1 ELSE CountCap
    /\ last_departure_state' = TRUE
    /\ UNCHANGED <<departure_start_time, stop_alert, main_pc, episode_cont>>

\* still departing (lines 286-292)
DepartureContinues ==
    /\ IF EscalationDue /\ NoAlertActive
       THEN LET r == play_continuous_alert(ContinuousDuration) IN
            /\ is_initialized => HasFreeId
            /\ stop_alert' = r.stop_alert
            /\ alert_thread' = r.alert_thread
            /\ threads' = r.threads
            /\ issued' = <<CmdContinuous(ContinuousDuration)>>
            /\ episode_cont' = IF episode_cont < CountCap THEN episode_cont + 1 ELSE CountCap
       ELSE /\ issued' = << >>
            /\ UNCHANGED <<stop_alert, alert_thread, threads, episode_cont>>
    /\ last_departure_state' = TRUE
    /\ UNCHANGED <<departure_start_time, last_alert_time, main_pc, episode_single>>

\* back in lane (lines 295-299): stop_continuous_alert sets the flag (line 163)
\* and tests the handle (line 164); the join and the rest of the call follow
DepartureEnds ==
    /\ stop_alert' = TRUE
    /\ issued' = <<CmdStop>>
    /\ IF alert_thread # None /\ IsAlive(threads, alert_thread)
       THEN /\ main_pc' = "stop_join"
            /\ UNCHANGED <<departure_start_time, last_departure_state>>
       ELSE /\ main_pc' = "ready"
            /\ departure_start_time' = None
            /\ last_departure_state' = FALSE
    /\ UNCHANGED <<last_alert_time, alert_thread, threads, episode_single,
                   episode_cont>>

\* mutant: every frame in lane sends the stop command again
StaysInLane_Stops ==
    /\ issued' = <<CmdStop>>
    /\ stop_alert' = TRUE
    /\ last_departure_state' = FALSE
    /\ UNCHANGED <<departure_start_time, last_alert_time, alert_thread, threads,
                   main_pc, episode_single, episode_cont>>

\* not departing and was not departing: only line 301
StaysInLane ==
    /\ issued' = << >>
    /\ last_departure_state' = FALSE
    /\ UNCHANGED <<departure_start_time, last_alert_time, alert_thread, threads,
                   stop_alert, main_pc, episode_single, episode_cont>>

ProcessDeparture(is_departing) ==
    /\ main_pc = "ready"
    /\ call_arg' = is_departing
    /\ frame_bit' = ~frame_bit
    /\ IF is_departing
       THEN IF ~last_departure_state THEN DepartureBegins ELSE DepartureContinues
       ELSE IF last_departure_state THEN DepartureEnds ELSE StaysInLane
    /\ IF ~is_departing /\ last_departure_state
       THEN cancelled' = {id \in DOMAIN threads : threads[id].kind = "cont"}
       ELSE UNCHANGED cancel_vars
    /\ UNCHANGED <<now, is_initialized, join_target, join_deadline>>
    /\ UNCHANGED <<det_vars, center_vars, cls_vars, offset_vars, vol_vars, sink_vars>>

\* stop_continuous_alert, line 165: self.alert_thread is read again and joined
JoinBegin ==
    /\ main_pc = "stop_join"
    /\ main_pc' = "joining"
    /\ join_target' = alert_thread
    /\ join_deadline' = now + JoinTimeout
    /\ UNCHANGED <<now, is_initialized, last_alert_time, alert_thread, stop_alert,
                   threads, last_departure_state, departure_start_time, call_arg,
                   issued, frame_bit, episode_single, episode_cont>>
    /\ UNCHANGED <<cancel_vars, det_vars, center_vars, cls_vars, offset_vars,
                   vol_vars, sink_vars, loop_vars>>

\* mutant: the return to lane forgets to clear departure_start_time
JoinReturn_KeepsStart ==
    /\ main_pc = "joining"
    /\ join_target = None \/ ~IsAlive(threads, join_target) \/ now >= join_deadline
    /\ main_pc' = "ready"
    /\ join_target' = None
    /\ last_departure_state' = call_arg
    /\ UNCHANGED <<now, is_initialized, last_alert_time, alert_thread, stop_alert,
                   threads, departure_start_time, call_arg, join_deadline, issued,
                   frame_bit, episode_single, episode_cont>>
    /\ UNCHANGED <<cancel_vars, det_vars, center_vars, cls_vars, offset_vars,
                   vol_vars, sink_vars, loop_vars>>

\* the join returns (thread ended, or timeout); lines 298-301 complete the call
JoinReturn ==
    /\ main_pc = "joining"
    /\ join_target = None \/ ~IsAlive(threads, join_target) \/ now >= join_deadline
    /\ main_pc' = "ready"
    /\ join_target' = None
    /\ departure_start_time' = None
    /\ last_departure_state' = call_arg
    /\ UNCHANGED <<now, is_initialized, last_alert_time, alert_thread, stop_alert,
                   threads, call_arg, join_deadline, issued, frame_bit,
                   episode_single, episode_cont>>
    /\ UNCHANGED <<cancel_vars, det_vars, center_vars, cls_vars, offset_vars,
                   vol_vars, sink_vars, loop_vars>>

(***************************************************************************)
(* The repeat loop of play_continuous_alert (lines 149-152).               *)
(***************************************************************************)
LoopContinues(t) == now - t.start_time < t.duration /\ ~stop_alert

ContTest(id) ==
    /\ id \in DOMAIN threads
    /\ threads[id].kind = "cont"
    /\ threads[id].pc = "test"
    /\ threads' = IF LoopContinues(threads[id])
                  THEN [threads EXCEPT ![id].pc = "beep"]
                  ELSE Exit(threads, id)
    /\ UNCHANGED <<now, is_initialized, last_alert_time, alert_thread, stop_alert,
                   last_departure_state, departure_start_time, main_pc, call_arg,
                   join_target, join_deadline, issued, frame_bit, episode_single,
                   episode_cont>>
    /\ cancelled' = IF LoopContinues(threads[id]) THEN cancelled ELSE cancelled \ {id}
    /\ UNCHANGED <<det_vars, center_vars, cls_vars, offset_vars, vol_vars, sink_vars, loop_vars>>

ContBeep(id) ==
    /\ id \in DOMAIN threads
    /\ threads[id].kind = "cont"
    /\ threads[id].pc = "beep"
    /\ BeepFires(TRUE) => HasFreeId
    /\ LET r == play_beep(TRUE, threads) IN
       /\ last_alert_time' = r.last_alert_time
       /\ alert_thread' = r.alert_thread
       /\ threads' = [r.threads EXCEPT ![id].pc = "sleep",
                                       ![id].wake = now + alert_cooldown]
    /\ UNCHANGED <<now, is_initialized, stop_alert, last_departure_state,
                   departure_start_time, main_pc, call_arg, join_target,
                   join_deadline, issued, frame_bit, episode_single, episode_cont>>
    /\ UNCHANGED <<cancel_vars, det_vars, center_vars, cls_vars, offset_vars,
                   vol_vars, sink_vars, loop_vars>>

ContWake(id) ==
    /\ id \in DOMAIN threads
    /\ threads[id].kind = "cont"
    /\ threads[id].pc = "sleep"
    /\ now >= threads[id].wake
    /\ threads' = [threads EXCEPT ![id].pc = "test"]
    /\ UNCHANGED <<now, is_initialized, last_alert_time, alert_thread, stop_alert,
                   last_departure_state, departure_start_time, main_pc, call_arg,
                   join_target, join_deadline, issued, frame_bit, episode_single,
                   episode_cont>>
    /\ UNCHANGED <<cancel_vars, det_vars, center_vars, cls_vars, offset_vars,
                   vol_vars, sink_vars, loop_vars>>

\* mutant: the beep thread clears the departure timer when it ends
BeepExit_ClearsStart(id) ==
    /\ id \in DOMAIN threads
    /\ threads[id].kind = "beep"
    /\ threads' = Exit(threads, id)
    /\ departure_start_time' = None
    /\ UNCHANGED <<now, is_initialized, last_alert_time, alert_thread, stop_alert,
                   last_departure_state, main_pc, call_arg,
                   join_target, join_deadline, issued, frame_bit, episode_single,
                   episode_cont>>
    /\ UNCHANGED <<cancel_vars, det_vars, center_vars, cls_vars, offset_vars,
                   vol_vars, sink_vars, loop_vars>>

\* _play_beep_threaded returns (lines 86-102)
BeepExit(id) ==
    /\ id \in DOMAIN threads
    /\ threads[id].kind = "beep"
    /\ threads' = Exit(threads, id)
    /\ UNCHANGED <<now, is_initialized, last_alert_time, alert_thread, stop_alert,
                   last_departure_state, departure_start_time, main_pc, call_arg,
                   join_target, join_deadline, issued, frame_bit, episode_single,
                   episode_cont>>
    /\ UNCHANGED <<cancel_vars, det_vars, center_vars, cls_vars, offset_vars,
                   vol_vars, sink_vars, loop_vars>>

(***************************************************************************)
(* The clock.  Threads run promptly: a step that can be taken is taken     *)
(* within the tick, in any order with the other threads' steps.  So the    *)
(* clock advances only when the frame loop is between calls or blocked in  *)
(* its join, every repeat loop is asleep, and no beep thread has outlived  *)
(* its wait.                                                               *)
(***************************************************************************)
ThreadCanWait(t) ==
    IF t.kind = "cont"
    THEN t.pc = "sleep" /\ now < t.wake
    ELSE now < t.start_time + BeepTicks

JoinBlocked ==
    /\ main_pc \in {"joining", "cleanup_join"}
    /\ join_target # None
    /\ IsAlive(threads, join_target)
    /\ now < join_deadline

Tick ==
    /\ now < StartTime + Horizon
    /\ main_pc = "ready" \/ JoinBlocked
    /\ \A id \in DOMAIN threads : ThreadCanWait(threads[id])
    /\ now' = now + 1
    /\ UNCHANGED <<is_initialized, last_alert_time, alert_thread, stop_alert,
                   threads, last_departure_state, departure_start_time, main_pc,
                   call_arg, join_target, join_deadline, issued, frame_bit,
                   episode_single, episode_cont>>
    /\ UNCHANGED <<cancel_vars, det_vars, center_vars, cls_vars, offset_vars,
                   vol_vars, sink_vars, loop_vars>>

(***************************************************************************)
(* Exact arithmetic on pixel quantities: [n, d] with d > 0, lowest terms.  *)
(***************************************************************************)
Abs(i) == IF i < 0 THEN -i ELSE i

RECURSIVE GCD(_, _)
GCD(a, b) == IF b = 0 THEN a ELSE GCD(b, a % b)

R(n, d) == LET g == GCD(Abs(n), d) IN [n |-> n \div g, d |-> d \div g]
RInt(i) == [n |-> i, d |-> 1]
RAdd(a, b) == R(a.n * b.d + b.n * a.d, a.d * b.d)
RSub(a, b) == R(a.n * b.d - b.n * a.d, a.d * b.d)
RMul(a, b) == R(a.n * b.n, a.d * b.d)
RAbs(a) == [n |-> Abs(a.n), d |-> a.d]
RLess(a, b) == a.n * b.d < b.n * a.d

(***************************************************************************)
(* utils.calculate_lane_center.  A segment is <<x1, y1, x2, y2>>; lines is *)
(* None or Some(sequence of segments).                                     *)
(***************************************************************************)
SingleSideOffset == 100

\* line 215: (y2 - y1) / (x2 - x1) if x2 != x1 else float('inf')
Slope(seg) ==
    LET dx == seg[3] - seg[1]
        dy == seg[4] - seg[2]
    IN  IF dx # 0
        THEN [inf |-> FALSE, v |-> IF dx > 0 THEN R(dy, dx) ELSE R(-dy, -dx)]
        ELSE [inf |-> TRUE, v |-> RInt(0)]

\* mutant: the slope filter also drops the boundary slopes 0.5 and 2.0
Discarded_Strict(sl) ==
    \/ sl.inf
    \/ ~RLess(R(1, 2), RAbs(sl.v))
    \/ ~RLess(RAbs(sl.v), RInt(2))

\* mutant: the filter keeps the slopes up to 1.0 only
Discarded_AboveOne(sl) ==
    \/ sl.inf
    \/ RLess(RAbs(sl.v), R(1, 2))
    \/ RLess(RInt(1), RAbs(sl.v))

\* line 218: abs(slope) < 0.5 or abs(slope) > 2.0
Discarded(sl) ==
    \/ sl.inf
    \/ RLess(RAbs(sl.v), R(1, 2))
    \/ RLess(RInt(2), RAbs(sl.v))

\* lines 221-224
IsLeft(seg) == ~Discarded(Slope(seg)) /\ Slope(seg).v.n < 0
IsRight(seg) == ~Discarded(Slope(seg)) /\ ~(Slope(seg).v.n < 0)

RECURSIVE SumStart(_)
SumStart(segs) ==
    IF segs = << >> THEN 0
    ELSE segs[1][1] + SumStart(Tail(segs))

RECURSIVE SumX(_)
SumX(segs) ==
    IF segs = << >> THEN 0
    ELSE segs[1][1] + segs[1][3] + SumX(Tail(segs))

\* mutant: the mean of a side takes the x1 of its segments only
MeanX_StartOnly(segs) == R(SumStart(segs), Len(segs))

\* np.mean of the x1 and x2 of every segment of a non-empty side
MeanX(segs) == R(SumX(segs), 2 * Len(segs))

\* mutant: with one side only, the other is taken at an eighth of the image
\* width from it
calculate_lane_center_ByWidth(lines, image_width) ==
    IF lines = None \/ Len(Val(lines)) = 0 THEN None
    ELSE LET left_lines == SelectSeq(Val(lines), IsLeft)
             right_lines == SelectSeq(Val(lines), IsRight)
         IN  IF left_lines # << >> /\ right_lines # << >>
             THEN Some(RMul(RAdd(MeanX(left_lines), MeanX(right_lines)), R(1, 2)))
             ELSE IF left_lines # << >>
             THEN Some(RAdd(MeanX(left_lines), R(image_width, 8)))
             ELSE IF right_lines # << >>
             THEN Some(RSub(MeanX(right_lines), R(image_width, 8)))
             ELSE None

\* lines 206-252
calculate_lane_center(lines, image_width) ==
    IF lines = None \/ Len(Val(lines)) = 0 THEN None
    ELSE LET left_lines == SelectSeq(Val(lines), IsLeft)
             right_lines == SelectSeq(Val(lines), IsRight)
         IN  IF left_lines # << >> /\ right_lines # << >>
             THEN Some(RMul(RAdd(MeanX(left_lines), MeanX(right_lines)), R(1, 2)))
             ELSE IF left_lines # << >>
             THEN Some(RAdd(MeanX(left_lines), RInt(SingleSideOffset)))
             ELSE IF right_lines # << >>
             THEN Some(RSub(MeanX(right_lines), RInt(SingleSideOffset)))
             ELSE None

\* mutant: the image centre's offset from the lane centre
calculate_center_offset_Reversed(lane_center, image_center) ==
    RSub(image_center, lane_center)

\* utils.calculate_center_offset (line 62)
calculate_center_offset(lane_center, image_center) == RSub(lane_center, image_center)

\* mutant: an offset equal to the threshold counts as a departure
is_lane_departure_Inclusive(offset, threshold) ==
    ~RLess(RAbs(offset), RInt(threshold))

\* utils.is_lane_departure (line 76): abs(offset) > threshold
is_lane_departure(offset, threshold) == RLess(RInt(threshold), RAbs(offset))

(***************************************************************************)
(* LaneDetector.  A frame is None or Some([width, lines, fault]): lines is *)
(* what HoughLinesP finds in it (None when nothing), fault tells where     *)
(* the processing of the frame raises, if it does.                         *)
(***************************************************************************)
FrameWidth == 1280

smoothing_factor == R(7, 10)

\* mutant: the weights of the blend are exchanged
Smooth_Swapped(prev, new) ==
    RAdd(RMul(RSub(RInt(1), smoothing_factor), prev), RMul(smoothing_factor, new))

\* mutant: the blend extrapolates past the new estimate (weights -0.7 and
\* 1.7)
Smooth_Overshoots(prev, new) ==
    RAdd(RMul(RSub(RInt(0), smoothing_factor), prev),
         RMul(RAdd(RInt(1), smoothing_factor), new))

\* mutant: the new estimate is given the weight of the previous centre, so
\* the weights no longer add up to 1
Smooth_EqualWeights(prev, new) ==
    RAdd(RMul(smoothing_factor, prev), RMul(smoothing_factor, new))

\* lines 198-200
Smooth(prev, new) ==
    RAdd(RMul(smoothing_factor, prev), RMul(RSub(RInt(1), smoothing_factor), new))

\* Python truthiness of an optional float: None and 0.0 are false
TruthyR(o) == o # None /\ Val(o).n # 0

\* mutant: the classification reads the threshold the detector was built
\* with, not the current one
calculate_drift_InitialThreshold(f, last) ==
    LET image_center == R(f.width, 2)
        estimate == IF f.lines # None
                    THEN calculate_lane_center(f.lines, f.width) ELSE None
        smoothed == IF estimate # None /\ last # None
                    THEN Some(Smooth(Val(last), Val(estimate))) ELSE estimate
        new_last == IF smoothed # None THEN smoothed ELSE last
        lane_center == IF smoothed # None THEN Val(smoothed)
                       ELSE IF TruthyR(last) THEN Val(last) ELSE image_center
        offset == calculate_center_offset(lane_center, image_center)
    IN  [last |-> new_last,
         result |-> [lane_center |-> Some(lane_center),
                     image_center |-> Some(image_center),
                     offset |-> offset,
                     off_lane |-> is_lane_departure(offset, 50),
                     processed_frame |-> TRUE]]

\* mutant: without a previous centre the first estimate is blended with the
\* image centre
calculate_drift_BlendsFirst(f, last) ==
    LET image_center == R(f.width, 2)
        estimate == IF f.lines # None
                    THEN calculate_lane_center(f.lines, f.width) ELSE None
        smoothed == IF estimate # None
                    THEN Some(Smooth(IF last # None THEN Val(last) ELSE image_center,
                                     Val(estimate)))
                    ELSE estimate
        new_last == IF smoothed # None THEN smoothed ELSE last
        lane_center == IF smoothed # None THEN Val(smoothed)
                       ELSE IF TruthyR(last) THEN Val(last) ELSE image_center
        offset == calculate_center_offset(lane_center, image_center)
    IN  [last |-> new_last,
         result |-> [lane_center |-> Some(lane_center),
                     image_center |-> Some(image_center),
                     offset |-> offset,
                     off_lane |-> is_lane_departure(offset, departure_threshold),
                     processed_frame |-> TRUE]]

\* mutant: with no estimate and no previous centre the centre falls back to
\* the left edge of the image
calculate_drift_FallbackZero(f, last) ==
    LET image_center == R(f.width, 2)
        estimate == IF f.lines # None
                    THEN calculate_lane_center(f.lines, f.width) ELSE None
        smoothed == IF estimate # None /\ last # None
                    THEN Some(Smooth(Val(last), Val(estimate))) ELSE estimate
        new_last == IF smoothed # None THEN smoothed ELSE last
        lane_center == IF smoothed # None THEN Val(smoothed)
                       ELSE IF TruthyR(last) THEN Val(last) ELSE RInt(0)
        offset == calculate_center_offset(lane_center, image_center)
    IN  [last |-> new_last,
         result |-> [lane_center |-> Some(lane_center),
                     image_center |-> Some(image_center),
                     offset |-> offset,
                     off_lane |-> is_lane_departure(offset, departure_threshold),
                     processed_frame |-> TRUE]]

\* _calculate_drift (lines 191-221) with last_lane_center = last:
\* the result record and the new last_lane_center
calculate_drift(f, last) ==
    LET image_center == R(f.width, 2)
        estimate == IF f.lines # None
                    THEN calculate_lane_center(f.lines, f.width) ELSE None
        smoothed == IF estimate # None /\ last # None
                    THEN Some(Smooth(Val(last), Val(estimate))) ELSE estimate
        new_last == IF smoothed # None THEN smoothed ELSE last
        lane_center == IF smoothed # None THEN Val(smoothed)
                       ELSE IF TruthyR(last) THEN Val(last) ELSE image_center
        offset == calculate_center_offset(lane_center, image_center)
    IN  [last |-> new_last,
         result |-> [lane_center |-> Some(lane_center),
                     image_center |-> Some(image_center),
                     offset |-> offset,
                     off_lane |-> is_lane_departure(offset, departure_threshold),
                     processed_frame |-> TRUE]]

\* _empty_result (lines 259-268)
empty_result == [lane_center |-> None, image_center |-> None, offset |-> RInt(0),
                 off_lane |-> FALSE, processed_frame |-> FALSE]

\* what the line detector finds in the frames of a run
SegLeft == <<300, 700, 500, 500>>
SegRight == <<800, 500, 1000, 700>>
SegRightEdge == <<50, 0, 150, 100>>
SegLeftFar == <<500, 600, 700, 400>>
SegFlat == <<100, 500, 900, 500>>
DetLines == {None, Some(<<SegLeft, SegRight>>), Some(<<SegRightEdge>>),
             Some(<<SegLeftFar>>), Some(<<SegFlat>>)}
Faults == {"none", "pipeline", "overlay"}
Frames == {None} \cup {Some([width |-> FrameWidth, lines |-> l, fault |-> x]) :
                          l \in DetLines, x \in Faults}
Thresholds == {-10, 0, 50, 60}

\* mutant: a failure of the overlay step is not caught, and the result of
\* _calculate_drift is returned as it is
detect_lanes_OverlayUncaught(frame) ==
    /\ det_frames < MaxFrames
    /\ det_frames' = det_frames + 1
    /\ seen' = IF frame # None /\ Val(frame).fault # "pipeline"
                  /\ Val(frame).lines # None
                  /\ calculate_lane_center(Val(frame).lines, Val(frame).width) # None
               THEN seen \cup {Val(calculate_lane_center(Val(frame).lines,
                                                         Val(frame).width))}
               ELSE seen
    /\ det_input' = frame
    /\ IF frame = None \/ Val(frame).fault = "pipeline"
       THEN /\ det_result' = Some(empty_result)
            /\ UNCHANGED last_lane_center
       ELSE LET r == calculate_drift(Val(frame), last_lane_center) IN
            /\ last_lane_center' = r.last
            /\ det_result' = Some(r.result)
    /\ UNCHANGED departure_threshold
    /\ UNCHANGED <<alert_vars, center_vars, cls_vars, offset_vars, vol_vars, sink_vars>>

\* LaneDetector.detect_lanes (lines 78-107)
detect_lanes(frame) ==
    /\ det_frames < MaxFrames
    /\ det_frames' = det_frames + 1
    /\ seen' = IF frame # None /\ Val(frame).fault # "pipeline"
                  /\ Val(frame).lines # None
                  /\ calculate_lane_center(Val(frame).lines, Val(frame).width) # None
               THEN seen \cup {Val(calculate_lane_center(Val(frame).lines,
                                                         Val(frame).width))}
               ELSE seen
    /\ det_input' = frame
    /\ IF frame = None \/ Val(frame).fault = "pipeline"
       THEN /\ det_result' = Some(empty_result)
            /\ UNCHANGED last_lane_center
       ELSE LET r == calculate_drift(Val(frame), last_lane_center) IN
            /\ last_lane_center' = r.last
            /\ det_result' = IF Val(frame).fault = "overlay"
                             THEN Some(empty_result) ELSE Some(r.result)
    /\ UNCHANGED departure_threshold
    /\ UNCHANGED <<alert_vars, center_vars, cls_vars, offset_vars, vol_vars, sink_vars>>

\* mutant: a threshold update resets the smoother
update_threshold_Resets(new_threshold) ==
    /\ departure_threshold' = new_threshold
    /\ last_lane_center' = None
    /\ UNCHANGED <<det_result, det_input, det_frames, seen>>
    /\ UNCHANGED <<alert_vars, center_vars, cls_vars, offset_vars, vol_vars, sink_vars>>

\* LaneDetector.update_threshold (lines 270-278)
update_threshold(new_threshold) ==
    /\ departure_threshold' = new_threshold
    /\ UNCHANGED <<last_lane_center, det_result, det_input, det_frames, seen>>
    /\ UNCHANGED <<alert_vars, center_vars, cls_vars, offset_vars, vol_vars, sink_vars>>

(***************************************************************************)
(* calculate_lane_center applied to one input.                             *)
(***************************************************************************)
Coords == 0..MaxCoord
Heights == 0..(MaxCoord + 1)
Segments == {<<x1, 0, x2, y2>> : x1 \in Coords, x2 \in Coords, y2 \in Heights}

\* inputs at the scale of a frame: one left lane line with its endpoints
\* around x = 300, one right lane line around x = 700, and two left lines
\* with one right line
SegLeft300 == <<200, 300, 400, 100>>
SegRight700 == <<600, 100, 800, 300>>
FrameInputs == {Some(<<SegLeft300>>), Some(<<SegRight700>>),
                Some(<<SegLeft300, SegLeftFar, SegRight700>>)}

CenterInputs ==
    {None} \cup {Some(s) : s \in UNION {[1..k -> Segments] : k \in 0..MaxLines}}
           \cup FrameInputs

\* the image_width argument: the width of the default and of a VGA frame
Widths == {640, FrameWidth}

CallCenter ==
    /\ c_pc = "call"
    /\ \E image_width \in Widths :
           c_result' = calculate_lane_center(c_lines, image_width)
    /\ c_pc' = "done"
    /\ UNCHANGED c_lines
    /\ UNCHANGED <<alert_vars, det_vars, cls_vars, offset_vars, vol_vars, sink_vars, loop_vars>>

(***************************************************************************)
(* AudioAlert on its own: a client calls play_beep, play_continuous_alert, *)
(* stop_continuous_alert and cleanup (the destructor calls cleanup again)  *)
(* in any order, one call at a time, while the threads of the sink run.    *)
(***************************************************************************)
\* the duration asked for: the one process_departure passes
SinkDurations == {ContinuousDuration}

SinkPlayBeep(force) ==
    /\ main_pc = "ready"
    /\ BeepFires(force) => HasFreeId
    /\ LET r == play_beep(force, threads) IN
       /\ last_alert_time' = r.last_alert_time
       /\ alert_thread' = r.alert_thread
       /\ threads' = r.threads
       /\ sink_ret' = Some(r.returned)
    /\ sink_op' = "play_beep"
    /\ sink_bit' = ~sink_bit
    /\ UNCHANGED <<now, is_initialized, stop_alert, last_departure_state,
                   departure_start_time, main_pc, call_arg, join_target,
                   join_deadline, issued, frame_bit, episode_single, episode_cont>>
    /\ UNCHANGED <<cancel_vars, cleanups>>
    /\ UNCHANGED <<det_vars, center_vars, cls_vars, loop_vars, offset_vars, vol_vars>>

SinkPlayContinuous(d) ==
    /\ main_pc = "ready"
    /\ is_initialized => HasFreeId
    /\ LET r == play_continuous_alert(d) IN
       /\ stop_alert' = r.stop_alert
       /\ alert_thread' = r.alert_thread
       /\ threads' = r.threads
    /\ sink_op' = "play_continuous_alert"
    /\ sink_ret' = None
    /\ sink_bit' = ~sink_bit
    /\ UNCHANGED <<now, is_initialized, last_alert_time, last_departure_state,
                   departure_start_time, main_pc, call_arg, join_target,
                   join_deadline, issued, frame_bit, episode_single, episode_cont>>
    /\ UNCHANGED <<cancel_vars, cleanups>>
    /\ UNCHANGED <<det_vars, center_vars, cls_vars, loop_vars, offset_vars, vol_vars>>

\* stop_continuous_alert (lines 161-166) up to its join: the flag is set
\* and the thread alert_thread names is joined if it is alive
StopAndJoin(pc) ==
    /\ main_pc = "ready"
    /\ stop_alert' = TRUE
    /\ cancelled' = {id \in DOMAIN threads : threads[id].kind = "cont"}
    /\ main_pc' = pc
    /\ IF alert_thread # None /\ IsAlive(threads, alert_thread)
       THEN /\ join_target' = alert_thread
            /\ join_deadline' = now + JoinTimeout
       ELSE /\ join_target' = None
            /\ UNCHANGED join_deadline
    /\ sink_ret' = None
    /\ UNCHANGED <<now, is_initialized, last_alert_time, alert_thread, threads,
                   last_departure_state, departure_start_time, call_arg, issued,
                   frame_bit, episode_single, episode_cont>>
    /\ UNCHANGED <<sink_bit, cleanups>>
    /\ UNCHANGED <<det_vars, center_vars, cls_vars, loop_vars, offset_vars, vol_vars>>

SinkStop ==
    /\ StopAndJoin("joining")
    /\ sink_op' = "stop_continuous_alert"

\* AudioAlert.cleanup (lines 215-221), also called by __del__ (line 225),
\* up to the join of its stop_continuous_alert
SinkCleanup ==
    /\ cleanups < MaxCleanups
    /\ StopAndJoin("cleanup_join")
    /\ sink_op' = "cleanup"

\* the join is over (the thread ended or the timeout passed) or there was
\* none; cleanup goes on to lines 218-220: the mixer is closed if the sink
\* is initialized, and is_initialized cleared
SinkJoinEnd ==
    /\ main_pc \in {"joining", "cleanup_join"}
    /\ IF join_target = None THEN TRUE
       ELSE ~IsAlive(threads, join_target) \/ now >= join_deadline
    /\ main_pc' = "ready"
    /\ join_target' = None
    /\ IF main_pc = "cleanup_join"
       THEN is_initialized' = FALSE /\ cleanups' = cleanups + 1
       ELSE UNCHANGED <<is_initialized, cleanups>>
    /\ UNCHANGED <<now, last_alert_time, alert_thread, stop_alert, threads,
                   last_departure_state, departure_start_time, call_arg,
                   join_deadline, issued, frame_bit, episode_single, episode_cont>>
    /\ UNCHANGED <<cancel_vars, sink_op, sink_ret, sink_bit>>
    /\ UNCHANGED <<det_vars, center_vars, cls_vars, loop_vars, offset_vars, vol_vars>>

SinkTick ==
    /\ now < StartTime + SinkHorizon
    /\ Tick

(***************************************************************************)
(* The volume of the sink, in exact fractions.  The constructor and        *)
(* update_volume clamp what they are given with max(0.0, min(1.0, v)); the *)
(* frame loop's 'v' key asks for 0.0 when the volume is above one half and *)
(* for one half otherwise.                                                 *)
(***************************************************************************)
\* mutant: the clamp has no lower bound
ClampVolume_NoFloor(v) == IF RLess(v, RInt(1)) THEN v ELSE RInt(1)

\* audio_alert.py lines 41 and 175: max(0.0, min(1.0, v))
ClampVolume(v) ==
    LET capped == IF RLess(v, RInt(1)) THEN v ELSE RInt(1)
    IN  IF RLess(RInt(0), capped) THEN capped ELSE RInt(0)

\* the volumes asked for: tenths from below 0.0 to above 1.0
VolumeArgs == {R(k, 10) : k \in (-MaxVolume)..(10 + MaxVolume)}

\* AudioAlert.update_volume (audio_alert.py lines 168-176)
update_volume(new_volume) ==
    /\ volume' = ClampVolume(new_volume)
    /\ vol_arg' = new_volume

\* main.py lines 175-176
ToggleVolume == IF RLess(R(1, 2), volume) THEN RInt(0) ELSE R(1, 2)

\* a client calls update_volume
CallUpdateVolume(new_volume) ==
    /\ vol_calls < MaxCalls
    /\ vol_calls' = vol_calls + 1
    /\ update_volume(new_volume)
    /\ UNCHANGED <<alert_vars, det_vars, center_vars, cls_vars, loop_vars, offset_vars,
                   sink_vars>>

\* the 'v' key of the frame loop (main.py lines 173-178)
CallToggleVolume ==
    /\ vol_calls < MaxCalls
    /\ vol_calls' = vol_calls + 1
    /\ update_volume(ToggleVolume)
    /\ UNCHANGED <<alert_vars, det_vars, center_vars, cls_vars, loop_vars, offset_vars,
                   sink_vars>>

(***************************************************************************)
(* OpenLKAS.run (main.py lines 108-188).  One iteration of the while loop  *)
(* is get_frame and detect_lanes (LoopPoll), process_departure (LoopAlert, *)
(* with the join it may wait in) and the rest of the body (LoopRest).  The *)
(* try statement encloses the whole loop, so an exception that reaches it  *)
(* leaves the loop for the except and finally clauses.  Thirty iterations  *)
(* fit in a second: any number of them may fall in one tick.               *)
(***************************************************************************)
show_display == TRUE

\* what get_frame hands to the loop with ret = True: a frame with both lane
\* lines, a frame with a line at the right edge only, and one of these on
\* which the detection pipeline raises
LoopFrames ==
    {Some([width |-> FrameWidth, lines |-> Some(<<SegLeft, SegRight>>), fault |-> "none"]),
     Some([width |-> FrameWidth, lines |-> Some(<<SegRightEdge>>), fault |-> "none"]),
     Some([width |-> FrameWidth, lines |-> Some(<<SegRightEdge>>), fault |-> "pipeline"])}

\* where the body of the loop raises outside detect_lanes, if it does
LoopFaults == {"none", "display"}

\* cv2.waitKey: no key, or one of the keys the loop handles
Keys == {"none", "q", "t", "v"}

\* lines 110-114: run returns at once when the camera did not open
RunStart ==
    /\ loop_pc = "idle"
    /\ IF camera_ok
       THEN running' = TRUE /\ loop_pc' = "poll"
       ELSE running' = FALSE /\ loop_pc' = "returned"
    /\ UNCHANGED <<frame_count, polls, stop_cause, camera_ok, camera_released>>
    /\ UNCHANGED <<alert_vars, det_vars, center_vars, cls_vars, offset_vars, vol_vars, sink_vars>>

\* mutant: the loop does not test ret and hands the missing frame on
LoopPoll_IgnoresRet(ret, frame) ==
    /\ loop_pc = "poll"
    /\ running
    /\ IF ~ret
       THEN /\ polls < CountCap
            /\ polls' = polls + 1
            /\ detect_lanes(None)
       ELSE /\ frame_count < MaxIterations
            /\ polls' = 0
            /\ detect_lanes(frame)
    /\ loop_pc' = "alert"
    /\ UNCHANGED <<running, frame_count, stop_cause, camera_ok, camera_released>>

\* lines 121-129: the while test, get_frame, `continue` on failure,
\* detect_lanes on success
LoopPoll(ret, frame) ==
    /\ loop_pc = "poll"
    /\ running
    /\ IF ~ret
       THEN /\ polls < CountCap
            /\ polls' = polls + 1
            /\ UNCHANGED <<running, frame_count, loop_pc, stop_cause, camera_ok, camera_released>>
            /\ UNCHANGED <<alert_vars, det_vars, center_vars, cls_vars, offset_vars, vol_vars, sink_vars>>
       ELSE /\ frame_count < MaxIterations
            /\ polls' = 0
            /\ detect_lanes(frame)
            /\ loop_pc' = "alert"
            /\ UNCHANGED <<running, frame_count, stop_cause, camera_ok, camera_released>>

\* lines 132-135
LoopAlert ==
    /\ loop_pc = "alert"
    /\ ProcessDeparture(Val(det_result).off_lane)
    /\ loop_pc' = "rest"
    /\ UNCHANGED <<running, frame_count, polls, stop_cause, camera_ok, camera_released>>

\* line 169
NextThreshold == IF departure_threshold < 100 THEN departure_threshold + 10 ELSE 20

\* lines 138-181, once process_departure has returned: the frame is counted,
\* then shown and the key handled when there is a processed frame.  An
\* exception here is caught by line 185, outside the loop.
LoopRest(fault, key) ==
    /\ loop_pc = "rest"
    /\ main_pc = "ready"
    /\ frame_count' = frame_count + 1
    /\ IF show_display /\ Val(det_result).processed_frame
       THEN IF fault = "display"
            THEN /\ loop_pc' = "cleanup"
                 /\ stop_cause' = "error"
                 /\ UNCHANGED det_vars
            ELSE IF key = "q"
            THEN /\ loop_pc' = "cleanup"
                 /\ stop_cause' = "quit"
                 /\ UNCHANGED det_vars
            ELSE IF key = "t"
            THEN /\ update_threshold(NextThreshold)
                 /\ loop_pc' = "poll"
                 /\ UNCHANGED stop_cause
            ELSE /\ loop_pc' = "poll"
                 /\ UNCHANGED <<stop_cause, det_vars>>
       ELSE /\ loop_pc' = "poll"
            /\ UNCHANGED <<stop_cause, det_vars>>
    /\ IF show_display /\ Val(det_result).processed_frame
          /\ fault # "display" /\ key = "v"
       THEN update_volume(ToggleVolume) /\ UNCHANGED vol_calls
       ELSE UNCHANGED vol_vars
    /\ UNCHANGED <<running, polls, camera_ok, camera_released>>
    /\ UNCHANGED <<alert_vars, center_vars, cls_vars, offset_vars, sink_vars>>

\* KeyboardInterrupt, or the SystemExit signal_handler raises (main.py lines
\* 208-212), reaches the frame loop's thread anywhere in the try statement,
\* a join inside process_departure included: the rest of the iteration is
\* abandoned and the finally clause runs
LoopInterrupt ==
    /\ loop_pc \in {"poll", "alert", "rest"}
    /\ loop_pc' = "cleanup"
    /\ stop_cause' = "interrupt"
    /\ main_pc' = "ready"
    /\ join_target' = None
    /\ UNCHANGED <<now, is_initialized, last_alert_time, alert_thread, stop_alert,
                   threads, last_departure_state, departure_start_time, call_arg,
                   join_deadline, issued, frame_bit, episode_single, episode_cont>>
    /\ UNCHANGED <<running, frame_count, polls, camera_ok, camera_released>>
    /\ UNCHANGED <<cancel_vars, det_vars, center_vars, cls_vars, offset_vars, vol_vars, sink_vars>>

\* OpenLKAS.cleanup (lines 194-198): running is cleared and the camera
\* released; then AudioAlert.cleanup through LaneDepartureAlert.cleanup:
\* stop_continuous_alert sets the flag and joins the thread alert_thread
\* names if it is alive
CleanupBegin ==
    /\ loop_pc = "cleanup"
    /\ main_pc = "ready"
    /\ running' = FALSE
    /\ stop_alert' = TRUE
    /\ IF alert_thread # None /\ IsAlive(threads, alert_thread)
       THEN /\ main_pc' = "cleanup_join"
            /\ join_target' = alert_thread
            /\ join_deadline' = now + JoinTimeout
       ELSE UNCHANGED <<main_pc, join_target, join_deadline>>
    /\ loop_pc' = "closing"
    /\ camera_released' = TRUE
    /\ UNCHANGED <<now, is_initialized, last_alert_time, alert_thread, threads,
                   last_departure_state, departure_start_time, call_arg, issued,
                   frame_bit, episode_single, episode_cont>>
    /\ cancelled' = {id \in DOMAIN threads : threads[id].kind = "cont"}
    /\ UNCHANGED <<frame_count, polls, stop_cause, camera_ok>>
    /\ UNCHANGED <<det_vars, center_vars, cls_vars, offset_vars, vol_vars, sink_vars>>

\* mutant: cleanup leaves the sink initialised
CleanupEnd_KeepsMixer ==
    /\ loop_pc = "closing"
    /\ \/ /\ main_pc = "cleanup_join"
          /\ ~IsAlive(threads, join_target) \/ now >= join_deadline
       \/ main_pc = "ready"
    /\ main_pc' = "ready"
    /\ join_target' = None
    /\ loop_pc' = "stopped"
    /\ UNCHANGED <<now, is_initialized, last_alert_time, alert_thread, stop_alert,
                   threads, last_departure_state, departure_start_time, call_arg,
                   join_deadline, issued, frame_bit, episode_single, episode_cont>>
    /\ UNCHANGED <<running, frame_count, polls, stop_cause, camera_ok, camera_released>>
    /\ UNCHANGED <<cancel_vars, det_vars, center_vars, cls_vars, offset_vars, vol_vars, sink_vars>>

\* the join returns or there was none; audio_alert.py lines 218-220 close
\* the mixer and clear is_initialized, and cleanup and run return
CleanupEnd ==
    /\ loop_pc = "closing"
    /\ \/ /\ main_pc = "cleanup_join"
          /\ ~IsAlive(threads, join_target) \/ now >= join_deadline
       \/ main_pc = "ready"
    /\ main_pc' = "ready"
    /\ join_target' = None
    /\ is_initialized' = FALSE
    /\ loop_pc' = "stopped"
    /\ UNCHANGED <<now, last_alert_time, alert_thread, stop_alert, threads,
                   last_departure_state, departure_start_time, call_arg,
                   join_deadline, issued, frame_bit, episode_single, episode_cont>>
    /\ UNCHANGED <<running, frame_count, polls, stop_cause, camera_ok, camera_released>>
    /\ UNCHANGED <<cancel_vars, det_vars, center_vars, cls_vars, offset_vars, vol_vars, sink_vars>>

\* The body of an iteration is far shorter than a tick: the clock advances
\* while the loop waits for a frame or in a join, or after it has ended.
LoopTick ==
    /\ loop_pc \in {"poll", "stopped"} \/ JoinBlocked
    /\ now < StartTime + LoopHorizon
    /\ Tick

(***************************************************************************)
(* is_lane_departure applied to one input: offsets in half pixels and      *)
(* whole thresholds around zero, and the values of test_utils_functions.   *)
(***************************************************************************)
ClassifierOffsets ==
    {R(k, 2) : k \in (-2 * MaxOffset)..(2 * MaxOffset)}
        \cup {RInt(60), RInt(30), RInt(50), RInt(-50), RInt(-60)}
ClassifierThresholds == (-1..MaxOffset) \cup {50}

CallClassifier ==
    /\ cls_pc = "call"
    /\ cls_result' = is_lane_departure(cls_offset, cls_threshold)
    /\ cls_pc' = "done"
    /\ UNCHANGED <<cls_offset, cls_threshold>>
    /\ UNCHANGED <<alert_vars, det_vars, center_vars, loop_vars, offset_vars, vol_vars, sink_vars>>

(***************************************************************************)
(* calculate_center_offset applied to one pair of arguments.               *)
(***************************************************************************)
\* the arguments: the integers and halves around 0, and the pair the test
\* of the utilities uses (test_system.py lines 86-89)
OffsetValues ==
    {R(n, d) : n \in -MaxOffset..MaxOffset, d \in {1, 2}} \cup {RInt(50), RInt(100)}

CallOffset ==
    /\ co_pc = "call"
    /\ co_result' = calculate_center_offset(co_lane_center, co_image_center)
    /\ co_pc' = "done"
    /\ UNCHANGED <<co_lane_center, co_image_center>>
    /\ UNCHANGED <<alert_vars, det_vars, center_vars, cls_vars, loop_vars, vol_vars, sink_vars>>

(***************************************************************************)
(* Initial states.  Each specification runs one component; the others stay *)
(* as constructed.                                                         *)
(***************************************************************************)
\* the alert sink may have failed to initialise (_initialize_audio)
InitAlert ==
    /\ now = StartTime
    /\ is_initialized \in BOOLEAN
    /\ last_alert_time = 0
    /\ alert_thread = None
    /\ stop_alert = FALSE
    /\ threads = << >>
    /\ last_departure_state = FALSE
    /\ departure_start_time = None
    /\ main_pc = "ready"
    /\ call_arg = FALSE
    /\ join_target = None
    /\ join_deadline = 0
    /\ issued = << >>
    /\ frame_bit = FALSE
    /\ episode_single = 0
    /\ episode_cont = 0
    /\ cancelled = {}
    /\ last_lane_center = None
    /\ departure_threshold = 50
    /\ det_result = None
    /\ det_input = None
    /\ det_frames = 0
    /\ seen = {}
    /\ c_lines = None
    /\ c_result = None
    /\ c_pc = "done"
    /\ cls_offset = RInt(0)
    /\ cls_threshold = 0
    /\ cls_result = FALSE
    /\ cls_pc = "done"
    /\ running = FALSE
    /\ frame_count = 0
    /\ loop_pc = "idle"
    /\ polls = 0
    /\ stop_cause = "none"
    /\ camera_ok = TRUE
    /\ camera_released = FALSE
    /\ co_lane_center = RInt(0)
    /\ co_image_center = RInt(0)
    /\ co_result = RInt(0)
    /\ co_pc = "done"
    /\ volume = R(1, 2)
    /\ vol_arg = R(1, 2)
    /\ vol_calls = 0
    /\ sink_op = "none"
    /\ sink_ret = None
    /\ sink_bit = FALSE
    /\ cleanups = 0

InitDetector ==
    /\ now = StartTime
    /\ is_initialized = TRUE
    /\ last_alert_time = 0
    /\ alert_thread = None
    /\ stop_alert = FALSE
    /\ threads = << >>
    /\ last_departure_state = FALSE
    /\ departure_start_time = None
    /\ main_pc = "ready"
    /\ call_arg = FALSE
    /\ join_target = None
    /\ join_deadline = 0
    /\ issued = << >>
    /\ frame_bit = FALSE
    /\ episode_single = 0
    /\ episode_cont = 0
    /\ cancelled = {}
    /\ last_lane_center = None
    /\ departure_threshold = 50
    /\ det_result = None
    /\ det_input = None
    /\ det_frames = 0
    /\ seen = {}
    /\ c_lines = None
    /\ c_result = None
    /\ c_pc = "done"
    /\ cls_offset = RInt(0)
    /\ cls_threshold = 0
    /\ cls_result = FALSE
    /\ cls_pc = "done"
    /\ running = FALSE
    /\ frame_count = 0
    /\ loop_pc = "idle"
    /\ polls = 0
    /\ stop_cause = "none"
    /\ camera_ok = TRUE
    /\ camera_released = FALSE
    /\ co_lane_center = RInt(0)
    /\ co_image_center = RInt(0)
    /\ co_result = RInt(0)
    /\ co_pc = "done"
    /\ volume = R(1, 2)
    /\ vol_arg = R(1, 2)
    /\ vol_calls = 0
    /\ sink_op = "none"
    /\ sink_ret = None
    /\ sink_bit = FALSE
    /\ cleanups = 0

InitCenter ==
    /\ now = StartTime
    /\ is_initialized = TRUE
    /\ last_alert_time = 0
    /\ alert_thread = None
    /\ stop_alert = FALSE
    /\ threads = << >>
    /\ last_departure_state = FALSE
    /\ departure_start_time = None
    /\ main_pc = "ready"
    /\ call_arg = FALSE
    /\ join_target = None
    /\ join_deadline = 0
    /\ issued = << >>
    /\ frame_bit = FALSE
    /\ episode_single = 0
    /\ episode_cont = 0
    /\ cancelled = {}
    /\ last_lane_center = None
    /\ departure_threshold = 50
    /\ det_result = None
    /\ det_input = None
    /\ det_frames = 0
    /\ seen = {}
    /\ c_lines \in CenterInputs
    /\ c_result = None
    /\ c_pc = "call"
    /\ cls_offset = RInt(0)
    /\ cls_threshold = 0
    /\ cls_result = FALSE
    /\ cls_pc = "done"
    /\ running = FALSE
    /\ frame_count = 0
    /\ loop_pc = "idle"
    /\ polls = 0
    /\ stop_cause = "none"
    /\ camera_ok = TRUE
    /\ camera_released = FALSE
    /\ co_lane_center = RInt(0)
    /\ co_image_center = RInt(0)
    /\ co_result = RInt(0)
    /\ co_pc = "done"
    /\ volume = R(1, 2)
    /\ vol_arg = R(1, 2)
    /\ vol_calls = 0
    /\ sink_op = "none"
    /\ sink_ret = None
    /\ sink_bit = FALSE
    /\ cleanups = 0

InitClassifier ==
    /\ now = StartTime
    /\ is_initialized = TRUE
    /\ last_alert_time = 0
    /\ alert_thread = None
    /\ stop_alert = FALSE
    /\ threads = << >>
    /\ last_departure_state = FALSE
    /\ departure_start_time = None
    /\ main_pc = "ready"
    /\ call_arg = FALSE
    /\ join_target = None
    /\ join_deadline = 0
    /\ issued = << >>
    /\ frame_bit = FALSE
    /\ episode_single = 0
    /\ episode_cont = 0
    /\ cancelled = {}
    /\ last_lane_center = None
    /\ departure_threshold = 50
    /\ det_result = None
    /\ det_input = None
    /\ det_frames = 0
    /\ seen = {}
    /\ c_lines = None
    /\ c_result = None
    /\ c_pc = "done"
    /\ cls_offset \in ClassifierOffsets
    /\ cls_threshold \in ClassifierThresholds
    /\ cls_result = FALSE
    /\ cls_pc = "call"
    /\ running = FALSE
    /\ frame_count = 0
    /\ loop_pc = "idle"
    /\ polls = 0
    /\ stop_cause = "none"
    /\ camera_ok = TRUE
    /\ camera_released = FALSE
    /\ co_lane_center = RInt(0)
    /\ co_image_center = RInt(0)
    /\ co_result = RInt(0)
    /\ co_pc = "done"
    /\ volume = R(1, 2)
    /\ vol_arg = R(1, 2)
    /\ vol_calls = 0
    /\ sink_op = "none"
    /\ sink_ret = None
    /\ sink_bit = FALSE
    /\ cleanups = 0

\* the system as _initialize_system leaves it: the camera may have failed
\* to open (camera_module.py lines 51-53) and the alert sink to initialise
\* (audio_alert.py lines 61-63); both failures are logged, neither is raised
InitMain ==
    /\ now = StartTime
    /\ is_initialized \in BOOLEAN
    /\ last_alert_time = 0
    /\ alert_thread = None
    /\ stop_alert = FALSE
    /\ threads = << >>
    /\ last_departure_state = FALSE
    /\ departure_start_time = None
    /\ main_pc = "ready"
    /\ call_arg = FALSE
    /\ join_target = None
    /\ join_deadline = 0
    /\ issued = << >>
    /\ frame_bit = FALSE
    /\ episode_single = 0
    /\ episode_cont = 0
    /\ cancelled = {}
    /\ last_lane_center = None
    /\ departure_threshold = 50
    /\ det_result = None
    /\ det_input = None
    /\ det_frames = 0
    /\ seen = {}
    /\ c_lines = None
    /\ c_result = None
    /\ c_pc = "done"
    /\ cls_offset = RInt(0)
    /\ cls_threshold = 0
    /\ cls_result = FALSE
    /\ cls_pc = "done"
    /\ running = FALSE
    /\ frame_count = 0
    /\ loop_pc = "idle"
    /\ polls = 0
    /\ stop_cause = "none"
    /\ camera_ok \in BOOLEAN
    /\ camera_released = FALSE
    /\ co_lane_center = RInt(0)
    /\ co_image_center = RInt(0)
    /\ co_result = RInt(0)
    /\ co_pc = "done"
    /\ volume = R(1, 2)
    /\ vol_arg = R(1, 2)
    /\ vol_calls = 0
    /\ sink_op = "none"
    /\ sink_ret = None
    /\ sink_bit = FALSE
    /\ cleanups = 0

\* the detector as constructed, and a pair of arguments for the offset
InitOffset ==
    /\ now = StartTime
    /\ is_initialized = TRUE
    /\ last_alert_time = 0
    /\ alert_thread = None
    /\ stop_alert = FALSE
    /\ threads = << >>
    /\ last_departure_state = FALSE
    /\ departure_start_time = None
    /\ main_pc = "ready"
    /\ call_arg = FALSE
    /\ join_target = None
    /\ join_deadline = 0
    /\ issued = << >>
    /\ frame_bit = FALSE
    /\ episode_single = 0
    /\ episode_cont = 0
    /\ cancelled = {}
    /\ last_lane_center = None
    /\ departure_threshold = 50
    /\ det_result = None
    /\ det_input = None
    /\ det_frames = 0
    /\ seen = {}
    /\ c_lines = None
    /\ c_result = None
    /\ c_pc = "done"
    /\ cls_offset = RInt(0)
    /\ cls_threshold = 0
    /\ cls_result = FALSE
    /\ cls_pc = "done"
    /\ running = FALSE
    /\ frame_count = 0
    /\ loop_pc = "idle"
    /\ polls = 0
    /\ stop_cause = "none"
    /\ camera_ok = TRUE
    /\ camera_released = FALSE
    /\ co_lane_center \in OffsetValues
    /\ co_image_center \in OffsetValues
    /\ co_result = RInt(0)
    /\ co_pc = "call"
    /\ volume = R(1, 2)
    /\ vol_arg = R(1, 2)
    /\ vol_calls = 0
    /\ sink_op = "none"
    /\ sink_ret = None
    /\ sink_bit = FALSE
    /\ cleanups = 0

\* process_departure, detect_lanes and update_threshold leave the position
\* of the frame loop to their caller; called on their own, there is no loop
NextAlert ==
    \/ \E d \in BOOLEAN : ProcessDeparture(d) /\ UNCHANGED loop_vars
    \/ JoinBegin
    \/ JoinReturn
    \/ \E id \in ThreadIds : ContTest(id)
    \/ \E id \in ThreadIds : ContBeep(id)
    \/ \E id \in ThreadIds : ContWake(id)
    \/ \E id \in ThreadIds : BeepExit(id)
    \/ Tick

SpecAlert ==
    /\ InitAlert
    /\ [][NextAlert]_vars

\* The threads of the sink are scheduled and the clock advances: a thread
\* that can take its next step takes it, a join that is over returns, and
\* time passes whenever every thread is waiting.
SpecAlertFair ==
    /\ SpecAlert
    /\ \A id \in ThreadIds : WF_vars(ContTest(id))
    /\ \A id \in ThreadIds : WF_vars(ContBeep(id))
    /\ \A id \in ThreadIds : WF_vars(ContWake(id))
    /\ \A id \in ThreadIds : WF_vars(BeepExit(id))
    /\ WF_vars(JoinBegin)
    /\ WF_vars(JoinReturn)
    /\ WF_vars(Tick)

NextDetector ==
    \/ \E frame \in Frames : detect_lanes(frame) /\ UNCHANGED loop_vars
    \/ \E t \in Thresholds : update_threshold(t) /\ UNCHANGED loop_vars

SpecDetector ==
    /\ InitDetector
    /\ [][NextDetector]_vars

NextCenter == CallCenter

SpecCenter ==
    /\ InitCenter
    /\ [][NextCenter]_vars

NextMain ==
    \/ RunStart
    \/ \E ret \in BOOLEAN, frame \in LoopFrames : LoopPoll(ret, frame)
    \/ LoopAlert
    \/ \E fault \in LoopFaults, key \in Keys : LoopRest(fault, key)
    \/ LoopInterrupt
    \/ CleanupBegin
    \/ CleanupEnd
    \/ JoinBegin
    \/ JoinReturn
    \/ \E id \in ThreadIds : ContTest(id)
    \/ \E id \in ThreadIds : ContBeep(id)
    \/ \E id \in ThreadIds : ContWake(id)
    \/ \E id \in ThreadIds : BeepExit(id)
    \/ LoopTick

SpecMain ==
    /\ InitMain
    /\ [][NextMain]_vars

NextClassifier == CallClassifier

SpecClassifier ==
    /\ InitClassifier
    /\ [][NextClassifier]_vars

\* calculate_center_offset on its own, and as _calculate_drift calls it on
\* the frames of a run
NextOffset ==
    \/ CallOffset
    \/ \E frame \in Frames : detect_lanes(frame) /\ UNCHANGED loop_vars

SpecOffset ==
    /\ InitOffset
    /\ [][NextOffset]_vars

\* a sink constructed with any of the volumes (audio_alert.py line 41), whose
\* volume is then updated and toggled
InitVolume ==
    /\ now = StartTime
    /\ is_initialized = TRUE
    /\ last_alert_time = 0
    /\ alert_thread = None
    /\ stop_alert = FALSE
    /\ threads = << >>
    /\ last_departure_state = FALSE
    /\ departure_start_time = None
    /\ main_pc = "ready"
    /\ call_arg = FALSE
    /\ join_target = None
    /\ join_deadline = 0
    /\ issued = << >>
    /\ frame_bit = FALSE
    /\ episode_single = 0
    /\ episode_cont = 0
    /\ cancelled = {}
    /\ last_lane_center = None
    /\ departure_threshold = 50
    /\ det_result = None
    /\ det_input = None
    /\ det_frames = 0
    /\ seen = {}
    /\ c_lines = None
    /\ c_result = None
    /\ c_pc = "done"
    /\ cls_offset = RInt(0)
    /\ cls_threshold = 0
    /\ cls_result = FALSE
    /\ cls_pc = "done"
    /\ running = FALSE
    /\ frame_count = 0
    /\ loop_pc = "idle"
    /\ polls = 0
    /\ stop_cause = "none"
    /\ camera_ok = TRUE
    /\ camera_released = FALSE
    /\ co_lane_center = RInt(0)
    /\ co_image_center = RInt(0)
    /\ co_result = RInt(0)
    /\ co_pc = "done"
    /\ vol_arg \in VolumeArgs
    /\ volume = ClampVolume(vol_arg)
    /\ vol_calls = 0
    /\ sink_op = "none"
    /\ sink_ret = None
    /\ sink_bit = FALSE
    /\ cleanups = 0

NextVolume ==
    \/ \E v \in VolumeArgs : CallUpdateVolume(v)
    \/ CallToggleVolume

SpecVolume ==
    /\ InitVolume
    /\ [][NextVolume]_vars

\* a sink after construction, initialized or not (_initialize_audio, lines
\* 54-63), and its client
InitSink ==
    /\ now = StartTime
    /\ is_initialized \in BOOLEAN
    /\ last_alert_time = 0
    /\ alert_thread = None
    /\ stop_alert = FALSE
    /\ threads = << >>
    /\ last_departure_state = FALSE
    /\ departure_start_time = None
    /\ main_pc = "ready"
    /\ call_arg = FALSE
    /\ join_target = None
    /\ join_deadline = 0
    /\ issued = << >>
    /\ frame_bit = FALSE
    /\ episode_single = 0
    /\ episode_cont = 0
    /\ cancelled = {}
    /\ last_lane_center = None
    /\ departure_threshold = 50
    /\ det_result = None
    /\ det_input = None
    /\ det_frames = 0
    /\ seen = {}
    /\ c_lines = None
    /\ c_result = None
    /\ c_pc = "done"
    /\ cls_offset = RInt(0)
    /\ cls_threshold = 0
    /\ cls_result = FALSE
    /\ cls_pc = "done"
    /\ running = FALSE
    /\ frame_count = 0
    /\ loop_pc = "idle"
    /\ polls = 0
    /\ stop_cause = "none"
    /\ camera_ok = TRUE
    /\ camera_released = FALSE
    /\ co_lane_center = RInt(0)
    /\ co_image_center = RInt(0)
    /\ co_result = RInt(0)
    /\ co_pc = "done"
    /\ volume = R(1, 2)
    /\ vol_arg = R(1, 2)
    /\ vol_calls = 0
    /\ sink_op = "none"
    /\ sink_ret = None
    /\ sink_bit = FALSE
    /\ cleanups = 0

NextSink ==
    \/ \E force \in BOOLEAN : SinkPlayBeep(force)
    \/ \E d \in SinkDurations : SinkPlayContinuous(d)
    \/ SinkStop
    \/ SinkCleanup
    \/ SinkJoinEnd
    \/ \E id \in ThreadIds : ContTest(id)
    \/ \E id \in ThreadIds : ContBeep(id)
    \/ \E id \in ThreadIds : ContWake(id)
    \/ \E id \in ThreadIds : BeepExit(id)
    \/ SinkTick

SpecSink ==
    /\ InitSink
    /\ [][NextSink]_vars

(***************************************************************************)
(* Properties of the alert state machine.                                  *)
(***************************************************************************)
\* a step that is a call of process_departure, with argument call_arg'
Called == main_pc = "ready" /\ frame_bit' # frame_bit

\* the repeat loops that are running, and the sink threads that are
ContLoops == {id \in DOMAIN threads : threads[id].kind = "cont"}
SinkBusy == DOMAIN threads # {}

Elapsed == now - Val(departure_start_time)

\* C1: a call with is_departing = true after a frame that was not departing
\* records departure_start_time = now and issues exactly one non-forced
\* play_beep command and no continuous-alert command.
C1_IdleToAlerting ==
    [][(Called /\ call_arg' /\ ~last_departure_state)
         => /\ departure_start_time' = Some(now)
            /\ issued' = <<CmdBeep(FALSE)>>
            /\ last_departure_state']_vars

C1_Witness ==
    /\ main_pc = "ready"
    /\ last_departure_state
    /\ departure_start_time = Some(now)
    /\ issued = <<CmdBeep(FALSE)>>
    /\ alert_thread # None

C3_NoRestartWhileRunning ==
    [][(Called /\ call_arg' /\ last_departure_state /\ ContLoops # {})
         => issued' = << >>]_vars

\* C4: the first frame in lane after a departing frame issues exactly one
\* stop-continuous-alert command, which starts and ends no thread, and the
\* call clears departure_start_time; further frames in lane issue nothing
\* and change nothing.
C4_BackToIdle ==
    [][/\ (Called /\ ~call_arg' /\ last_departure_state)
            => /\ issued' = <<CmdStop>>
               /\ stop_alert'
               /\ threads' = threads /\ alert_thread' = alert_thread
               /\ last_alert_time' = last_alert_time
               /\ main_pc' = "ready"
                    => departure_start_time' = None /\ ~last_departure_state'
       /\ (Called /\ ~call_arg' /\ ~last_departure_state)
            => /\ issued' = << >>
               /\ UNCHANGED <<threads, alert_thread, stop_alert, last_alert_time,
                              departure_start_time, last_departure_state, main_pc>>
       /\ (main_pc = "joining" /\ main_pc' = "ready")
            => /\ departure_start_time' = None /\ ~last_departure_state'
               /\ issued' = <<CmdStop>>]_vars

C4_Witness ==
    /\ main_pc = "ready"
    /\ ~last_departure_state
    /\ departure_start_time = None
    /\ issued = <<CmdStop>>
    /\ stop_alert
    /\ episode_cont > 0

\* C5: in an uninterrupted departure that has lasted no more than 2.0 s,
\* exactly one single-alert command and no continuous-alert command have
\* been issued.
C5_AlertingIssuesNothingMore ==
    (last_departure_state /\ departure_start_time # None
        /\ Elapsed <= continuous_alert_threshold)
      => (episode_single = 1 /\ episode_cont = 0)

C5_Witness ==
    /\ main_pc = "ready"
    /\ last_departure_state
    /\ departure_start_time # None
    /\ Elapsed = continuous_alert_threshold
    /\ issued = << >>
    /\ episode_single = 1

\* C6: between calls, departure_start_time is set iff last_departure_state;
\* it is set to the time of the first departing frame, later departing
\* frames leave it alone, and it is cleared only by the return to Idle.
C6_StartTimeInvariant ==
    /\ [](main_pc = "ready" => (departure_start_time # None <=> last_departure_state))
    /\ [][/\ (Called /\ call_arg' /\ ~last_departure_state)
               => departure_start_time' = Some(now)
          /\ (Called /\ call_arg' /\ last_departure_state)
               => departure_start_time' = departure_start_time
          /\ (departure_start_time # None /\ departure_start_time' = None)
               => (~call_arg' /\ ~last_departure_state' /\ main_pc' = "ready")
          /\ (departure_start_time' # departure_start_time)
               => (Called \/ main_pc = "joining")]_vars

C6_Witness ==
    /\ main_pc = "ready"
    /\ last_departure_state
    /\ departure_start_time # None
    /\ Elapsed > 0
    /\ issued = << >>

(***************************************************************************)
(* Properties of the temporal smoother.                                    *)
(***************************************************************************)
\* a step that is a call of detect_lanes, with frame det_input'
Detected == det_frames' # det_frames

\* the raw estimate a frame yields, and whether _calculate_drift ran on it
Estimate(frame) ==
    IF frame = None \/ Val(frame).lines = None THEN None
    ELSE calculate_lane_center(Val(frame).lines, Val(frame).width)
ReachedDrift(frame) == frame # None /\ Val(frame).fault # "pipeline"
Returned(frame) == frame # None /\ Val(frame).fault = "none"

\* C7: a frame without an estimate, with last_lane_center set to any value
\* (0 included), is given lane_center = last_lane_center, and
\* last_lane_center stays as it was.
C7_AbsentKeepsPrior ==
    [][(Detected /\ Returned(det_input') /\ Estimate(det_input') = None
          /\ last_lane_center # None)
         => /\ Val(det_result').lane_center = last_lane_center
            /\ last_lane_center' = last_lane_center]_vars

\* C8: a frame with estimate new and a previous centre prev is given
\* lane_center = 0.7 * prev + 0.3 * new, and last_lane_center becomes that
\* blended value.
C8_Blend ==
    [][(Detected /\ ReachedDrift(det_input') /\ Estimate(det_input') # None
          /\ last_lane_center # None)
         => /\ last_lane_center' # None
            /\ RMul(RInt(10), Val(last_lane_center'))
                 = RAdd(RMul(RInt(7), Val(last_lane_center)),
                        RMul(RInt(3), Val(Estimate(det_input'))))
            /\ Returned(det_input')
                 => Val(det_result').lane_center = last_lane_center']_vars

C8_Witness ==
    /\ det_frames >= 2
    /\ Returned(det_input)
    /\ Estimate(det_input) # None
    /\ last_lane_center # None
    /\ last_lane_center # Estimate(det_input)
    /\ Val(det_result).lane_center = last_lane_center

\* C9: last_lane_center, once set, is never absent again, and it changes
\* only in a detect_lanes call on a frame that yields an estimate.
C9_Sticky ==
    [][/\ last_lane_center # None => last_lane_center' # None
       /\ last_lane_center' # last_lane_center
            => (Detected /\ ReachedDrift(det_input')
                  /\ Estimate(det_input') # None)]_vars

C9_Witness ==
    /\ last_lane_center # None
    /\ Returned(det_input)
    /\ Estimate(det_input) = None
    /\ Val(det_result).lane_center = last_lane_center
    /\ departure_threshold # 50

(***************************************************************************)
(* Properties of calculate_lane_center.                                    *)
(***************************************************************************)
\* 0.5 <= |dy / dx| <= 2.0, in integers
Survives(seg) ==
    LET dx == Abs(seg[3] - seg[1])
        dy == Abs(seg[4] - seg[2])
    IN  dx # 0 /\ dx <= 2 * dy /\ dy <= 2 * dx

NoSurvivor(lines) ==
    lines = None \/ \A i \in 1..Len(Val(lines)) : ~Survives(Val(lines)[i])

\* C10: calculate_lane_center returns None exactly when no segment passes
\* the slope filter (None, the empty set, or every segment discarded), and
\* returns a value otherwise.
C10_AbsentIffNoSurvivor ==
    c_pc = "done" => (c_result = None <=> NoSurvivor(c_lines))

C10_Witness ==
    /\ c_pc = "done"
    /\ c_result = None
    /\ c_lines # None
    /\ Len(Val(c_lines)) = 2
    /\ ~Survives(Val(c_lines)[1])
    /\ Val(c_lines)[1] # Val(c_lines)[2]

\* the segments of an input that pass the filter with a falling slope
\* (dy and dx of opposite signs) and with a rising one, and the sum of the
\* x1 and x2 of a sequence of segments
Falls(seg) == Survives(seg) /\ (seg[4] - seg[2]) * (seg[3] - seg[1]) < 0
Rises(seg) == Survives(seg) /\ (seg[4] - seg[2]) * (seg[3] - seg[1]) > 0
LeftSet(lines) == SelectSeq(Val(lines), Falls)
RightSet(lines) == SelectSeq(Val(lines), Rises)

RECURSIVE Endpoints(_)
Endpoints(segs) ==
    IF segs = << >> THEN 0
    ELSE Head(segs)[1] + Head(segs)[3] + Endpoints(Tail(segs))

\* the rational r is the integer fraction num / den
IsFraction(r, num, den) == r.n * den = r.d * num

\* C11: when only left candidates survive the result is the mean of their
\* endpoints plus 100, when only right candidates survive it is the mean of
\* theirs minus 100, whatever the image width; a left line of mean 300
\* gives 400 and a right line of mean 700 gives 600.
C11_SingleSide ==
    (c_pc = "done" /\ c_lines # None) =>
        LET L == LeftSet(c_lines)
            Rt == RightSet(c_lines)
        IN  /\ (L # << >> /\ Rt = << >>)
                  => /\ c_result # None
                     /\ IsFraction(Val(c_result),
                                   Endpoints(L) + 100 * 2 * Len(L), 2 * Len(L))
            /\ (L = << >> /\ Rt # << >>)
                  => /\ c_result # None
                     /\ IsFraction(Val(c_result),
                                   Endpoints(Rt) - 100 * 2 * Len(Rt), 2 * Len(Rt))
            /\ c_lines = Some(<<SegLeft300>>) => c_result = Some(RInt(400))
            /\ c_lines = Some(<<SegRight700>>) => c_result = Some(RInt(600))

C11_Witness ==
    /\ c_pc = "done"
    /\ c_lines = Some(<<SegLeft300>>)
    /\ LeftSet(c_lines) = <<SegLeft300>>
    /\ c_result = Some(RInt(400))

\* C12: the surviving segments of slope < 0 are the left set, those of
\* slope >= 0 the right set; when both are non-empty the result is the
\* mean of the two sides' centres, each the arithmetic mean of all the x1
\* and x2 of its segments.
C12_BothSides ==
    (c_pc = "done" /\ c_lines # None) =>
        LET L == LeftSet(c_lines)
            Rt == RightSet(c_lines)
        IN  (L # << >> /\ Rt # << >>)
               => /\ c_result # None
                  /\ IsFraction(Val(c_result),
                                Endpoints(L) * Len(Rt) + Endpoints(Rt) * Len(L),
                                4 * Len(L) * Len(Rt))

C12_Witness ==
    /\ c_pc = "done"
    /\ c_lines = Some(<<SegLeft300, SegLeftFar, SegRight700>>)
    /\ Len(LeftSet(c_lines)) = 2
    /\ Len(RightSet(c_lines)) = 1
    /\ c_result = Some(RInt(575))

\* C13: a segment contributes to the estimate exactly when
\* 0.5 <= |slope| <= 2.0: the result is that of the input without the other
\* segments; slopes of exactly 0.5 and 2.0 are kept, and a vertical segment
\* is discarded without a fault.
C13_SlopeFilter ==
    (c_pc = "done" /\ c_lines # None) =>
        /\ c_result = calculate_lane_center(
                          Some(SelectSeq(Val(c_lines), Survives)), FrameWidth)
        /\ \A i \in 1..Len(Val(c_lines)) :
              LET seg == Val(c_lines)[i]
                  dx == Abs(seg[3] - seg[1])
                  dy == Abs(seg[4] - seg[2])
              IN  /\ (dx # 0 /\ (dx = 2 * dy \/ dy = 2 * dx) /\ Len(Val(c_lines)) = 1)
                       => c_result # None
                  /\ (dx = 0 /\ Len(Val(c_lines)) = 1) => c_result = None

C13_Witness ==
    /\ c_pc = "done"
    /\ c_lines = Some(<<<<0, 0, 2, 1>>, <<1, 0, 1, 2>>>>)
    /\ c_result = Some(RInt(1 - 100))

(***************************************************************************)
(* Properties of is_lane_departure.                                        *)
(***************************************************************************)
\* C14: is_lane_departure(offset, threshold) is true exactly when
\* |offset| > threshold: false when |offset| equals the threshold, and the
\* same for offset and -offset; 60 and 30 against 50 give true and false.
C14_StrictThreshold ==
    cls_pc = "done" =>
        /\ cls_result <=> (Abs(cls_offset.n) > cls_threshold * cls_offset.d)
        /\ Abs(cls_offset.n) = cls_threshold * cls_offset.d => ~cls_result
        /\ cls_result = is_lane_departure([n |-> -cls_offset.n, d |-> cls_offset.d],
                                          cls_threshold)
        /\ (cls_offset = RInt(60) /\ cls_threshold = 50) => cls_result
        /\ (cls_offset = RInt(30) /\ cls_threshold = 50) => ~cls_result

C14_Witness ==
    /\ cls_pc = "done"
    /\ cls_offset = RInt(-50)
    /\ cls_threshold = 50
    /\ ~cls_result

(***************************************************************************)
(* Properties of the departure threshold.                                  *)
(***************************************************************************)
\* C15: a frame classified after update_threshold(t) has
\* off_lane = (|offset| > t) for its own offset, t being the value of the
\* latest update; an update changes departure_threshold only: the result
\* returned before it and last_lane_center stay as they were.
C15_ThresholdRoundTrip ==
    [][/\ (Detected /\ Returned(det_input'))
            => LET o == Val(det_result').offset IN
               /\ Val(det_result').off_lane
                     <=> (Abs(o.n) > departure_threshold * o.d)
               /\ departure_threshold' = departure_threshold
       /\ departure_threshold' # departure_threshold
            => /\ departure_threshold' \in Thresholds
               /\ UNCHANGED <<last_lane_center, det_result, det_input,
                              det_frames>>]_vars

C15_Witness ==
    /\ departure_threshold = 0
    /\ Returned(det_input)
    /\ Val(det_result).offset = RInt(10)
    /\ Val(det_result).off_lane
    /\ last_lane_center # None

\* C16: a threshold update to a nonsensical value never leaves
\* departure_threshold at that value: the threshold is never negative.
C16_ThresholdValidated == departure_threshold >= 0

(***************************************************************************)
(* Properties of the frame loop.                                           *)
(***************************************************************************)
\* a step in which get_frame reports failure
PollFailed == loop_pc = "poll" /\ polls' = polls + 1

\* C17: an iteration whose get_frame reports failure runs no detection and
\* no alert processing: last_lane_center, last_departure_state,
\* departure_start_time and frame_count are unchanged, and the loop is
\* still running and polls the frame source again.
C17_FailedFrameSkipped ==
    [][PollFailed
         => /\ UNCHANGED <<last_lane_center, last_departure_state,
                           departure_start_time, frame_count>>
            /\ UNCHANGED <<det_frames, det_result, frame_bit, issued>>
            /\ loop_pc' = "poll"
            /\ running']_vars

C17_Witness ==
    /\ loop_pc = "poll"
    /\ polls = CountCap
    /\ frame_count = 1
    /\ last_lane_center # None
    /\ last_departure_state
    /\ departure_start_time # None
    /\ running

\* C18: no exception raised while a frame is processed ends the control
\* loop: the loop is never left through its except clause.
C18_ErrorContained == stop_cause # "error"

(***************************************************************************)
(* Properties of the alert sink.                                           *)
(***************************************************************************)
\* C19: with the sink unavailable (is_initialized false) every call of
\* process_departure returns at once with last_departure_state and
\* departure_start_time updated as with a working sink, the commands it
\* issues start no thread and leave the sink's alert state untouched
\* (play_beep returns False), and the detector's state is not affected.
C19_SinkFailureNonFatal ==
    /\ [](~is_initialized
            => /\ threads = << >>
               /\ alert_thread = None
               /\ last_alert_time = 0
               /\ ~play_beep(FALSE, threads).returned
               /\ ~play_beep(TRUE, threads).returned)
    /\ [][Called
            => /\ ~is_initialized => main_pc' = "ready"
               /\ main_pc' = "ready"
                    => /\ last_departure_state' = call_arg'
                       /\ departure_start_time'
                            = IF ~call_arg' THEN None
                              ELSE IF last_departure_state
                                   THEN departure_start_time
                                   ELSE Some(now)
               /\ UNCHANGED det_vars]_vars

C19_Witness ==
    /\ ~is_initialized
    /\ main_pc = "ready"
    /\ last_departure_state
    /\ departure_start_time # None
    /\ issued = <<CmdContinuous(ContinuousDuration)>>
    /\ episode_cont = 1
    /\ threads = << >>

\* a step in which the sink fires an alert sound: a beep thread starts
Fired == \E id \in DOMAIN threads' \ DOMAIN threads : threads'[id].kind = "beep"

\* C20: two successive alert sounds of the sink are at least alert_cooldown
\* apart: when a sound fires, the one before it (at last_alert_time) is at
\* least a cooldown old.
C20_Cooldown ==
    [][Fired => now - last_alert_time >= alert_cooldown]_vars

(***************************************************************************)
(* The sink's play_beep, seen from its two callers: process_departure      *)
(* calls it unforced when a departure begins, and a repeat loop calls it   *)
(* forced once per repeat.                                                 *)
(***************************************************************************)
BeepCall(force) ==
    IF force
    THEN \E id \in DOMAIN threads :
            /\ threads[id].kind = "cont" /\ threads[id].pc = "beep"
            /\ id \in DOMAIN threads' /\ threads'[id].pc = "sleep"
    ELSE Called /\ call_arg' /\ ~last_departure_state

NewBeeps == {id \in DOMAIN threads' \ DOMAIN threads : threads'[id].kind = "beep"}

Refused(force) ==
    ~is_initialized \/ (~force /\ now - last_alert_time < alert_cooldown)

\* C24: play_beep(force) returns False and leaves last_alert_time and the
\* thread handle as they were when the sink is not initialized, or when the
\* call is unforced and less than alert_cooldown has passed since
\* last_alert_time; otherwise it returns True, sets last_alert_time to now
\* and starts exactly one beep thread, which the handle then names.
C24_PlayBeep ==
    [][\A force \in BOOLEAN : BeepCall(force) =>
         /\ play_beep(force, threads).returned = ~Refused(force)
         /\ Refused(force) => /\ last_alert_time' = last_alert_time
                              /\ alert_thread' = alert_thread
                              /\ NewBeeps = {}
         /\ ~Refused(force) => /\ last_alert_time' = now
                               /\ Cardinality(NewBeeps) = 1
                               /\ alert_thread' # None
                               /\ Val(alert_thread') \in NewBeeps]_vars

\* an unforced call has just been refused by the cooldown alone
C24_Witness ==
    /\ is_initialized
    /\ issued = <<CmdBeep(FALSE)>>
    /\ departure_start_time = Some(now)
    /\ last_alert_time # now
    /\ now - last_alert_time < alert_cooldown

(***************************************************************************)
(* Cancellation of the repeat loop.                                        *)
(***************************************************************************)
\* the repeat loop id plays a beep in this step
LoopFires(id) ==
    /\ id \in DOMAIN threads /\ threads[id].kind = "cont" /\ threads[id].pc = "beep"
    /\ id \in DOMAIN threads' /\ threads'[id].pc = "sleep"
    /\ NewBeeps # {}

\* C21: once stop_continuous_alert has been called, a repeat loop that was
\* running at the call plays no further beep, and the call waits for the
\* thread it joins no longer than the join timeout of one second.
C21_Cancellation ==
    [][/\ \A id \in cancelled : ~LoopFires(id)
       /\ main_pc' \in {"joining", "cleanup_join"} => now' <= join_deadline']_vars

\* C29: at most one repeat loop started by play_continuous_alert is running
\* at any time.
C29_OneRepeatLoop == Cardinality(ContLoops) <= 1

\* the repeat loop id passes its while test in this step (line 150)
LoopResumes(id) ==
    /\ id \in DOMAIN threads /\ threads[id].kind = "cont" /\ threads[id].pc = "test"
    /\ id \in DOMAIN threads' /\ threads'[id].pc = "beep"

\* C30: a repeat loop that was running when stop_continuous_alert was called
\* plays no further beep and never passes its while test again, whether or
\* not play_continuous_alert has been called again since the stop.
C30_NoRevival ==
    [][\A id \in cancelled : ~LoopFires(id) /\ ~LoopResumes(id)]_vars

(***************************************************************************)
(* Startup.                                                                *)
(***************************************************************************)
\* the camera or the alert sink failed to initialise when the system was
\* built (cleanup, which also clears is_initialized, runs once the loop has
\* stopped)
StartupFailed == ~camera_ok \/ (~is_initialized /\ loop_pc # "stopped")

\* C22: when the frame source or the alert sink could not be set up at
\* startup, the run ends there: the frame loop is never entered and no frame
\* reaches detect_lanes or process_departure.
C22_StartupFailureFatal ==
    StartupFailed => /\ loop_pc \in {"idle", "returned"}
                     /\ ~running
                     /\ det_frames = 0
                     /\ frame_count = 0

(***************************************************************************)
(* Who writes the state, and in what order.                                *)
(***************************************************************************)
\* a step of a background thread of the sink: a thread moves on or ends
ThreadStep ==
    \E id \in DOMAIN threads : id \notin DOMAIN threads' \/ threads'[id] # threads[id]

\* a step of the frame loop's thread
LoopStep == loop_pc' # loop_pc \/ main_pc' # main_pc \/ polls' # polls

\* C23: last_departure_state, departure_start_time, last_lane_center and
\* departure_threshold change only in steps of the frame loop's thread, never
\* in a step of a background alert thread; and the transitions are taken
\* one at a time in frame order: process_departure is called only when the
\* call before it has returned, with the result of the frame just detected,
\* and the next frame is detected only after that call has returned.
C23_SingleWriter ==
    [][/\ ThreadStep => UNCHANGED <<last_departure_state, departure_start_time,
                                    last_lane_center, departure_threshold>>
       /\ <<last_departure_state, departure_start_time>>'
             # <<last_departure_state, departure_start_time>>
            => \/ loop_pc = "alert" /\ loop_pc' = "rest"
               \/ main_pc = "joining" /\ main_pc' = "ready"
       /\ <<last_lane_center, departure_threshold>>'
             # <<last_lane_center, departure_threshold>>
            => LoopStep /\ loop_pc \in {"poll", "rest"}
       /\ Called => /\ loop_pc = "alert" /\ main_pc = "ready"
                    /\ call_arg' = Val(det_result).off_lane
       /\ Detected => loop_pc = "poll" /\ main_pc = "ready"]_vars

\* a repeat loop and a beep thread run while the frame loop, between two
\* frames, holds a departure and an accepted lane centre
C23_Witness ==
    /\ ContLoops # {}
    /\ \E id \in DOMAIN threads : threads[id].kind = "beep"
    /\ loop_pc = "poll"
    /\ frame_count = MaxIterations
    /\ last_departure_state
    /\ departure_start_time # None
    /\ last_lane_center # None

(***************************************************************************)
(* The smoother without a previous centre.                                 *)
(***************************************************************************)
\* C25: a frame that yields an estimate while last_lane_center is unset gets
\* the raw estimate, unblended, as its lane_center, and last_lane_center
\* becomes that estimate.
C25_FirstEstimate ==
    [][(Detected /\ ReachedDrift(det_input') /\ Estimate(det_input') # None
          /\ last_lane_center = None)
         => /\ last_lane_center' = Estimate(det_input')
            /\ Returned(det_input')
                 => Val(det_result').lane_center = Estimate(det_input')]_vars

\* the first frame of a run had both lane lines: centre (400 + 900) / 2
C25_Witness ==
    /\ det_frames = 1
    /\ Returned(det_input)
    /\ Val(det_input).lines = Some(<<SegLeft, SegRight>>)
    /\ last_lane_center = Some(RInt(650))
    /\ Val(det_result).lane_center = Some(RInt(650))

\* C26: a frame without an estimate while last_lane_center is unset gets
\* lane_center = image_center = width / 2 and offset 0, is not off lane when
\* the threshold is not negative, and leaves last_lane_center unset.
C26_Fallback ==
    [][(Detected /\ ReachedDrift(det_input') /\ Estimate(det_input') = None
          /\ last_lane_center = None)
         => /\ last_lane_center' = None
            /\ Returned(det_input')
                 => LET res == Val(det_result') IN
                    /\ res.lane_center = Some(R(Val(det_input').width, 2))
                    /\ res.image_center = Some(R(Val(det_input').width, 2))
                    /\ res.offset = RInt(0)
                    /\ departure_threshold >= 0 => ~res.off_lane]_vars

\* a frame with nothing but a horizontal segment, which the estimator
\* discards, arrived before any centre was accepted
C26_Witness ==
    /\ det_frames >= 1
    /\ Returned(det_input)
    /\ Val(det_input).lines = Some(<<SegFlat>>)
    /\ last_lane_center = None
    /\ Val(det_result).lane_center = Some(RInt(640))
    /\ Val(det_result).offset = RInt(0)
    /\ departure_threshold >= 0
    /\ ~Val(det_result).off_lane

(***************************************************************************)
(* The offset.                                                             *)
(***************************************************************************)
\* C28: calculate_center_offset(lane_center, image_center) is lane_center -
\* image_center, positive exactly when the lane centre lies right of the
\* image centre; and every result of a successful detection has
\* image_center = width / 2 and offset = lane_center - image_center.
C28_Offset ==
    /\ co_pc = "done"
         => /\ co_result.n * co_lane_center.d * co_image_center.d
                 = (co_lane_center.n * co_image_center.d
                      - co_image_center.n * co_lane_center.d) * co_result.d
            /\ co_result.d > 0
            /\ co_result.n > 0 <=> RLess(co_image_center, co_lane_center)
    /\ (det_result # None /\ Val(det_result).processed_frame)
         => LET res == Val(det_result) IN
            /\ res.image_center = Some(R(Val(det_input).width, 2))
            /\ RAdd(res.offset, Val(res.image_center)) = Val(res.lane_center)

\* the pair of the utilities' test, 100 and 50, gave 50, and a detected
\* frame with both lane lines has its centre 10 right of the image centre
C28_Witness ==
    /\ co_pc = "done"
    /\ co_lane_center = RInt(100)
    /\ co_image_center = RInt(50)
    /\ co_result = RInt(50)
    /\ det_frames = 1
    /\ Val(det_result).processed_frame
    /\ Val(det_result).lane_center = Some(RInt(650))
    /\ Val(det_result).offset = RInt(10)

RLeq(a, b) == ~RLess(b, a)
RMin(a, b) == IF RLess(b, a) THEN b ELSE a
RMax(a, b) == IF RLess(a, b) THEN b ELSE a

C32_EmptyResultKeepsState ==
    [][(Detected /\ det_result' = Some(empty_result))
         => last_lane_center' = last_lane_center]_vars

\* a frame on which detect_lanes fails: no frame at all, or a failure in
\* the steps before _calculate_drift or in the overlay step
Failing(frame) == frame = None \/ Val(frame).fault # "none"

\* C33: on a None frame and on a frame on which any step fails, detect_lanes
\* returns, and what it returns is the empty result: no lane centre, offset
\* 0 and off_lane false.
C33_FailureGivesEmpty ==
    [][(Detected /\ Failing(det_input'))
         => /\ det_result' = Some(empty_result)
            /\ Val(det_result').lane_center = None
            /\ Val(det_result').offset = RInt(0)
            /\ ~Val(det_result').off_lane
            /\ ~Val(det_result').processed_frame]_vars

\* the overlay step failed on a frame that lies 640 left of the centre, far
\* beyond the threshold: the result is the empty one all the same
C33_Witness ==
    /\ det_input # None
    /\ Val(det_input).fault = "overlay"
    /\ Val(det_input).lines = Some(<<SegRightEdge>>)
    /\ last_lane_center = Some(RInt(0))
    /\ departure_threshold = 50
    /\ det_result = Some(empty_result)

\* C34: the process_departure call of a frame on which detection failed
\* with an internal error leaves last_departure_state and
\* departure_start_time as they are and starts or stops no alert.
C34_ErrorFrameKeepsAlertState ==
    [][(Called /\ det_input # None /\ Val(det_input).fault # "none")
         => /\ UNCHANGED <<last_departure_state, departure_start_time>>
            /\ UNCHANGED <<stop_alert, threads>>
            /\ issued' = << >>]_vars

(***************************************************************************)
(* C38: after construction with any volume and after any sequence of       *)
(* update_volume calls, the 'v' key's toggle among them, the volume of the *)
(* sink is within [0.0, 1.0], and it is the bound nearest to the volume    *)
(* asked for when that one is out of range (the volume asked for itself    *)
(* when it is in range).                                                   *)
(***************************************************************************)
InRange(v) == ~RLess(v, RInt(0)) /\ ~RLess(RInt(1), v)

C38_VolumeInvariant ==
    /\ InRange(volume)
    /\ RLess(vol_arg, RInt(0)) => volume = RInt(0)
    /\ RLess(RInt(1), vol_arg) => volume = RInt(1)
    /\ InRange(vol_arg) => volume = vol_arg

\* a request below 0.0 made by update_volume was clamped to 0.0
C38_Witness ==
    /\ vol_calls > 0
    /\ RLess(vol_arg, RInt(0))
    /\ volume = RInt(0)


(***************************************************************************)
(* C36: however the frame loop ends (the quit key, an interrupt or an      *)
(* exception in the loop), it ends into cleanup, and run returns only from *)
(* the end of cleanup: running is then false, the camera released, the     *)
(* stop of the continuous alert requested and the sink de-initialized, and *)
(* from then on no beep is started and nothing of this changes.            *)
(***************************************************************************)
InLoop == loop_pc \in {"poll", "alert", "rest"}
RunReturned == loop_pc = "stopped"

C36_CleanupLast ==
    /\ [](RunReturned => /\ ~running
                         /\ camera_released
                         /\ stop_alert
                         /\ ~is_initialized)
    /\ [][(InLoop /\ loop_pc' # loop_pc /\ ~InLoop')
             => loop_pc' = "cleanup" /\ stop_cause' \in {"quit", "error", "interrupt"}]_vars
    /\ [][(~RunReturned /\ RunReturned') => loop_pc = "closing"]_vars
    /\ [][RunReturned
             => /\ RunReturned'
                /\ DOMAIN threads' \subseteq DOMAIN threads
                /\ \A id \in DOMAIN threads : ~LoopFires(id)
                /\ last_alert_time' = last_alert_time]_vars

\* run has returned after an interrupt while a repeat loop is still alive
C36_Witness ==
    /\ RunReturned
    /\ stop_cause = "interrupt"
    /\ ContLoops # {}

(***************************************************************************)
(* C37: once a first AudioAlert.cleanup has returned, is_initialized is    *)
(* false for good; a further cleanup changes no field of the sink; every   *)
(* later play_beep, the client's and the repeat loop's alike, returns      *)
(* False and starts no thread; and every later play_continuous_alert       *)
(* starts no thread and leaves the stop flag as it is.                     *)
(***************************************************************************)
CleanedUp == cleanups >= 1
SinkCall(op) == sink_bit' # sink_bit /\ sink_op' = op
\* a step of cleanup: up to its join, or from the join to its return
CleanupStep ==
    \/ main_pc = "ready" /\ main_pc' = "cleanup_join"
    \/ cleanups' # cleanups
SinkFields == <<is_initialized, last_alert_time, alert_thread, stop_alert, threads>>

C37_CleanupFinal ==
    /\ [](CleanedUp => ~is_initialized)
    /\ [][(CleanedUp /\ CleanupStep) => UNCHANGED SinkFields]_vars
    /\ [][(CleanedUp /\ SinkCall("play_beep"))
             => sink_ret' = Some(FALSE) /\ UNCHANGED SinkFields]_vars
    /\ [][(CleanedUp /\ SinkCall("play_continuous_alert"))
             => UNCHANGED SinkFields]_vars
    /\ [][CleanedUp
             => /\ DOMAIN threads' \subseteq DOMAIN threads
                /\ \A id \in DOMAIN threads : ~LoopFires(id)
                /\ last_alert_time' = last_alert_time]_vars

\* a second cleanup has returned, and play_beep has been called after it,
\* on a sink that was initialized and had played
C37_Witness ==
    /\ cleanups = 2
    /\ sink_op = "play_beep"
    /\ sink_ret = Some(FALSE)
    /\ last_alert_time > 0

(***************************************************************************)
(* C31: every repeat loop started by play_continuous_alert(d) ends (within *)
(* the modelled clock); it plays a forced beep at most once per            *)
(* alert_cooldown; and it plays no beep once d has elapsed since its start *)
(* nor once a stop has been requested.                                     *)
(***************************************************************************)
\* the run has come to the end of the modelled clock, or repeat loops hold
\* every thread id of the model
AtBound == now = StartTime + Horizon \/ Cardinality(ContLoops) = MaxThreads

C31_Terminates ==
    \A id \in ThreadIds : (id \in ContLoops) ~> (id \notin ContLoops \/ AtBound)

C31_RepeatLoop ==
    /\ C31_Terminates
    /\ [][\A id \in ContLoops :
            LoopFires(id) => /\ now >= threads[id].wake
                             /\ threads'[id].wake = now + alert_cooldown
                             /\ now - threads[id].start_time < threads[id].duration
                             /\ id \notin cancelled]_vars

====
